---- MODULE Spec2Model ----
(***************************************************************************)
(* Ledger state machine of rusty-reckoning: the transaction Engine and its *)
(* two stores (AccountsStore, TransactionsStore).                          *)
(*                                                                         *)
(* Amounts are rust_decimal values; the engine only compares, adds and     *)
(* subtracts them, so they are modelled as integers counting units of      *)
(* 0.0001; within the bounds no sum leaves the 96-bit range of Decimal.    *)
(*                                                                         *)
(* Every handler is an operator from the engine before the call to the     *)
(* returned Result and the engine after it.  The variables transaction and *)
(* result observe the latest call; applied, charged_back and resolved are  *)
(* history.                                                                *)
(*                                                                         *)
(* The entry points run, run_async and main.rs run drive the engine from   *)
(* the records of an input file; run_async does so with a reader task and  *)
(* a processor task joined by a bounded channel.                           *)
(***************************************************************************)
EXTENDS Integers, FiniteSets, Sequences, TLC

\* ---- bounds of the model ----
MaxClient == 2
MaxTx == 2
MaxAmount == 2

Clients == 1..MaxClient
TxIds == 1..MaxTx
\* Option<Decimal>: None is the empty tuple, Some(a) the tuple <<a>>
None == <<>>
Some(a) == <<a>>
unwrap(opt) == opt[1]
\* negative, zero and positive decimals
Decimals == (-1)..MaxAmount
Amounts == {None} \cup {Some(a) : a \in Decimals}

\* dto.rs TransactionType
TransactionType == {"Deposit", "Withdrawal", "Dispute", "Resolve", "Chargeback"}
\* dto.rs Transaction.  The amount column of a dispute, resolve or chargeback
\* row is normally empty, but any Option<Decimal> is accepted there.
ReferenceAmounts == {None, Some(MaxAmount)}
Transaction ==
    [tx_type : {"Deposit", "Withdrawal"}, client : Clients, tx : TxIds, amount : Amounts]
    \cup [tx_type : {"Dispute", "Resolve", "Chargeback"}, client : Clients, tx : TxIds,
          amount : ReferenceAmounts]

VARIABLES
    accounts,                \* AccountsStore.accounts : HashMap<u16, Account>
    deposits,                \* TransactionsStore.deposits : HashMap<u32, StoredDeposit>
    processed_transactions,  \* TransactionsStore.processed_transactions : HashSet<u32>
    transaction,             \* argument of the latest process_transaction call
    result,                  \* value returned by the latest process_transaction call
    applied,                 \* history: deposits and withdrawals that returned Ok
    charged_back,            \* history: tx ids whose chargeback returned Ok
    resolved,                \* history: tx ids whose resolve returned Ok
    runner,                  \* the entry point that is running, "none" without one
    records,                 \* the records of the input file: transactions and malformed rows
    position,                \* number of records the reader has taken from records
    channel,                 \* run_async: transactions in the mpsc channel, oldest first
    reader_handle,           \* run_async: state of the read_transactions task
    processor_handle,        \* run_async: state of the process_transactions task
    outcome,                 \* "running", or the Result the entry point returned
    output,                  \* the AccountRows passed to the writer, in order
    received                 \* history: transactions given to the engine, in order

\* the variables of the engine and of its observation
engine_vars == <<accounts, deposits, processed_transactions, transaction, result, applied,
                 charged_back, resolved>>

\* the variables of the entry points
runner_vars == <<runner, records, position, channel, reader_handle, processor_handle,
                 outcome, output, received>>

vars == <<accounts, deposits, processed_transactions, transaction, result, applied,
          charged_back, resolved, runner, records, position, channel, reader_handle,
          processor_handle, outcome, output, received>>

\* the Engine value: both stores
Engine == [accounts |-> accounts,
           deposits |-> deposits,
           processed_transactions |-> processed_transactions]

Ok == "Ok"

\* ---- AccountsStore (stores/accounts.rs) ----

\* Account { id, available, held, locked } as inserted by get_or_create_mut
NewAccount(client) == [id |-> client, available |-> 0, held |-> 0, locked |-> FALSE]

\* Account::total
total(account) == account.available + account.held

check_account_lock(accs, client) ==
    IF client \in DOMAIN accs /\ accs[client].locked THEN "AccountLocked" ELSE Ok

\* the map after entry(client).or_insert_with(..)
get_or_create_mut(accs, client) ==
    IF client \in DOMAIN accs THEN accs ELSE accs @@ (client :> NewAccount(client))

get_mut(accs, client) ==
    IF client \in DOMAIN accs THEN Ok ELSE "AccountNotFound"

\* ---- TransactionsStore (stores/transactions.rs) ----

is_processed(processed, tx) == tx \in processed

mark_processed(processed, tx) == processed \cup {tx}

\* store_new_deposit without the contains_key test: insert replaces the record
store_new_deposit_overwrites(deps, tx, client, amount) ==
    [result |-> Ok,
     deposits |-> [x \in DOMAIN deps \cup {tx} |->
                      IF x = tx THEN [client |-> client, amount |-> amount, disputed |-> FALSE]
                      ELSE deps[x]]]

\* returns the Result and the deposits map after the call
store_new_deposit(deps, tx, client, amount) ==
    IF tx \in DOMAIN deps
    THEN [result |-> "DuplicateTransaction", deposits |-> deps]
    ELSE [result |-> Ok,
          deposits |-> deps @@ (tx :> [client |-> client, amount |-> amount, disputed |-> FALSE])]

\* get_deposit_mut without the comparison of deposit.client with client
get_deposit_mut_any_client(deps, client, tx) ==
    IF tx \notin DOMAIN deps THEN "TransactionNotFound" ELSE Ok

\* Result of the lookup; on Ok the caller holds &mut deps[tx]
get_deposit_mut(deps, client, tx) ==
    IF tx \notin DOMAIN deps THEN "TransactionNotFound"
    ELSE IF deps[tx].client # client THEN "TransactionClientMismatch"
    ELSE Ok

\* ---- Engine (engine.rs) ----

\* an Err(..) return: the engine as it is at the return
Return(e, r) == [result |-> r, engine |-> e]

\* process_deposit without `mark_processed(tx)`
process_deposit_no_mark(e, client, tx, amount) ==
    IF amount <= 0 THEN Return(e, "AmountMustBePositive")
    ELSE IF is_processed(e.processed_transactions, tx) THEN Return(e, "DuplicateTransaction")
    ELSE LET stored == store_new_deposit(e.deposits, tx, client, amount)
             e1 == [e EXCEPT !.deposits = stored.deposits]
         IN IF stored.result # Ok THEN Return(e1, stored.result)
            ELSE LET accs == get_or_create_mut(e1.accounts, client)
                 IN Return([e1 EXCEPT !.accounts =
                               [accs EXCEPT ![client].available = @ + amount]], Ok)

\* process_deposit with `account.available = amount` for `+=`
process_deposit_assigns(e, client, tx, amount) ==
    IF amount <= 0 THEN Return(e, "AmountMustBePositive")
    ELSE IF is_processed(e.processed_transactions, tx) THEN Return(e, "DuplicateTransaction")
    ELSE LET stored == store_new_deposit(e.deposits, tx, client, amount)
             e1 == [e EXCEPT !.deposits = stored.deposits]
         IN IF stored.result # Ok THEN Return(e1, stored.result)
            ELSE LET accs == get_or_create_mut(e1.accounts, client)
                     e2 == [e1 EXCEPT !.accounts =
                               [accs EXCEPT ![client].available = amount]]
                     e3 == [e2 EXCEPT !.processed_transactions = mark_processed(@, tx)]
                 IN Return(e3, Ok)

\* process_deposit relying on store_new_deposit alone for the duplicate check
process_deposit_record_check_only(e, client, tx, amount) ==
    IF amount <= 0 THEN Return(e, "AmountMustBePositive")
    ELSE LET stored == store_new_deposit(e.deposits, tx, client, amount)
             e1 == [e EXCEPT !.deposits = stored.deposits]
         IN IF stored.result # Ok THEN Return(e1, stored.result)
            ELSE LET accs == get_or_create_mut(e1.accounts, client)
                     e2 == [e1 EXCEPT !.accounts =
                               [accs EXCEPT ![client].available = @ + amount]]
                     e3 == [e2 EXCEPT !.processed_transactions = mark_processed(@, tx)]
                 IN Return(e3, Ok)

process_deposit(e, client, tx, amount) ==
    IF amount <= 0 THEN Return(e, "AmountMustBePositive")
    ELSE IF is_processed(e.processed_transactions, tx) THEN Return(e, "DuplicateTransaction")
    ELSE LET stored == store_new_deposit(e.deposits, tx, client, amount)
             e1 == [e EXCEPT !.deposits = stored.deposits]
         IN IF stored.result # Ok THEN Return(e1, stored.result)
            ELSE LET accs == get_or_create_mut(e1.accounts, client)
                     e2 == [e1 EXCEPT !.accounts =
                               [accs EXCEPT ![client].available = @ + amount]]
                     e3 == [e2 EXCEPT !.processed_transactions = mark_processed(@, tx)]
                 IN Return(e3, Ok)

\* process_withdrawal with the processed mark taken before the funds check
process_withdrawal_marks_early(e, client, tx, amount) ==
    IF amount <= 0 THEN Return(e, "AmountMustBePositive")
    ELSE IF is_processed(e.processed_transactions, tx) THEN Return(e, "DuplicateTransaction")
    ELSE IF get_mut(e.accounts, client) # Ok THEN Return(e, get_mut(e.accounts, client))
    ELSE LET e1 == [e EXCEPT !.processed_transactions = mark_processed(@, tx)]
         IN IF e1.accounts[client].available < amount THEN Return(e1, "InsufficientFunds")
            ELSE Return([e1 EXCEPT !.accounts[client].available = @ - amount], Ok)

\* process_withdrawal without `mark_processed(tx)`
process_withdrawal_no_mark(e, client, tx, amount) ==
    IF amount <= 0 THEN Return(e, "AmountMustBePositive")
    ELSE IF is_processed(e.processed_transactions, tx) THEN Return(e, "DuplicateTransaction")
    ELSE IF get_mut(e.accounts, client) # Ok THEN Return(e, get_mut(e.accounts, client))
    ELSE IF e.accounts[client].available < amount THEN Return(e, "InsufficientFunds")
    ELSE Return([e EXCEPT !.accounts[client].available = @ - amount], Ok)

\* process_withdrawal rejecting `available <= amount`
process_withdrawal_strict(e, client, tx, amount) ==
    IF amount <= 0 THEN Return(e, "AmountMustBePositive")
    ELSE IF is_processed(e.processed_transactions, tx) THEN Return(e, "DuplicateTransaction")
    ELSE IF get_mut(e.accounts, client) # Ok THEN Return(e, get_mut(e.accounts, client))
    ELSE IF e.accounts[client].available <= amount THEN Return(e, "InsufficientFunds")
    ELSE LET e1 == [e EXCEPT !.accounts[client].available = @ - amount]
             e2 == [e1 EXCEPT !.processed_transactions = mark_processed(@, tx)]
         IN Return(e2, Ok)

\* process_withdrawal fetching the account with get_or_create_mut
process_withdrawal_creates_account(e, client, tx, amount) ==
    IF amount <= 0 THEN Return(e, "AmountMustBePositive")
    ELSE IF is_processed(e.processed_transactions, tx) THEN Return(e, "DuplicateTransaction")
    ELSE LET e0 == [e EXCEPT !.accounts = get_or_create_mut(@, client)]
         IN IF e0.accounts[client].available < amount THEN Return(e0, "InsufficientFunds")
            ELSE LET e1 == [e0 EXCEPT !.accounts[client].available = @ - amount]
                     e2 == [e1 EXCEPT !.processed_transactions = mark_processed(@, tx)]
                 IN Return(e2, Ok)

\* process_withdrawal keeping a disputable record of the withdrawal
process_withdrawal_stores_record(e, client, tx, amount) ==
    IF amount <= 0 THEN Return(e, "AmountMustBePositive")
    ELSE IF is_processed(e.processed_transactions, tx) THEN Return(e, "DuplicateTransaction")
    ELSE IF get_mut(e.accounts, client) # Ok THEN Return(e, get_mut(e.accounts, client))
    ELSE IF e.accounts[client].available < amount THEN Return(e, "InsufficientFunds")
    ELSE LET e1 == [e EXCEPT !.accounts[client].available = @ - amount]
             e2 == [e1 EXCEPT !.processed_transactions = mark_processed(@, tx)]
             e3 == [e2 EXCEPT !.deposits =
                       store_new_deposit(@, tx, client, amount).deposits]
         IN Return(e3, Ok)

\* process_withdrawal without the test `account.available < amount`
process_withdrawal_overdraws(e, client, tx, amount) ==
    IF amount <= 0 THEN Return(e, "AmountMustBePositive")
    ELSE IF is_processed(e.processed_transactions, tx) THEN Return(e, "DuplicateTransaction")
    ELSE IF get_mut(e.accounts, client) # Ok THEN Return(e, get_mut(e.accounts, client))
    ELSE LET e1 == [e EXCEPT !.accounts[client].available = @ - amount]
             e2 == [e1 EXCEPT !.processed_transactions = mark_processed(@, tx)]
         IN Return(e2, Ok)

\* process_withdrawal looking the account up before the duplicate check
process_withdrawal_account_first(e, client, tx, amount) ==
    IF amount <= 0 THEN Return(e, "AmountMustBePositive")
    ELSE IF get_mut(e.accounts, client) # Ok THEN Return(e, get_mut(e.accounts, client))
    ELSE IF is_processed(e.processed_transactions, tx) THEN Return(e, "DuplicateTransaction")
    ELSE IF e.accounts[client].available < amount THEN Return(e, "InsufficientFunds")
    ELSE LET e1 == [e EXCEPT !.accounts[client].available = @ - amount]
             e2 == [e1 EXCEPT !.processed_transactions = mark_processed(@, tx)]
         IN Return(e2, Ok)

process_withdrawal(e, client, tx, amount) ==
    IF amount <= 0 THEN Return(e, "AmountMustBePositive")
    ELSE IF is_processed(e.processed_transactions, tx) THEN Return(e, "DuplicateTransaction")
    ELSE IF get_mut(e.accounts, client) # Ok THEN Return(e, get_mut(e.accounts, client))
    ELSE IF e.accounts[client].available < amount THEN Return(e, "InsufficientFunds")
    ELSE LET e1 == [e EXCEPT !.accounts[client].available = @ - amount]
             e2 == [e1 EXCEPT !.processed_transactions = mark_processed(@, tx)]
         IN Return(e2, Ok)

\* process_dispute testing the disputed flag before the owner
process_dispute_flag_first(e, client, tx) ==
    IF tx \notin DOMAIN e.deposits THEN Return(e, "TransactionNotFound")
    ELSE IF e.deposits[tx].disputed THEN Return(e, "TransactionAlreadyDisputed")
    ELSE IF e.deposits[tx].client # client THEN Return(e, "TransactionClientMismatch")
    ELSE LET e1 == [e EXCEPT !.deposits[tx].disputed = TRUE]
             amount == e1.deposits[tx].amount
             accs == get_or_create_mut(e1.accounts, client)
             e2 == [e1 EXCEPT !.accounts =
                       [accs EXCEPT ![client].held = @ + amount,
                                    ![client].available = @ - amount]]
         IN Return(e2, Ok)

\* process_dispute without `account.available -= amount`
process_dispute_keeps_available(e, client, tx) ==
    IF get_deposit_mut(e.deposits, client, tx) # Ok
    THEN Return(e, get_deposit_mut(e.deposits, client, tx))
    ELSE IF e.deposits[tx].disputed THEN Return(e, "TransactionAlreadyDisputed")
    ELSE LET e1 == [e EXCEPT !.deposits[tx].disputed = TRUE]
             amount == e1.deposits[tx].amount
             accs == get_or_create_mut(e1.accounts, client)
             e2 == [e1 EXCEPT !.accounts = [accs EXCEPT ![client].held = @ + amount]]
         IN Return(e2, Ok)

\* process_dispute refusing a dispute that would make available negative
process_dispute_requires_funds(e, client, tx) ==
    IF get_deposit_mut(e.deposits, client, tx) # Ok
    THEN Return(e, get_deposit_mut(e.deposits, client, tx))
    ELSE IF e.deposits[tx].disputed THEN Return(e, "TransactionAlreadyDisputed")
    ELSE IF get_or_create_mut(e.accounts, client)[client].available < e.deposits[tx].amount
    THEN Return(e, "InsufficientFunds")
    ELSE LET e1 == [e EXCEPT !.deposits[tx].disputed = TRUE]
             amount == e1.deposits[tx].amount
             accs == get_or_create_mut(e1.accounts, client)
             e2 == [e1 EXCEPT !.accounts =
                       [accs EXCEPT ![client].held = @ + amount,
                                    ![client].available = @ - amount]]
         IN Return(e2, Ok)

process_dispute(e, client, tx) ==
    IF get_deposit_mut(e.deposits, client, tx) # Ok
    THEN Return(e, get_deposit_mut(e.deposits, client, tx))
    ELSE IF e.deposits[tx].disputed THEN Return(e, "TransactionAlreadyDisputed")
    ELSE LET e1 == [e EXCEPT !.deposits[tx].disputed = TRUE]
             amount == e1.deposits[tx].amount
             accs == get_or_create_mut(e1.accounts, client)
             e2 == [e1 EXCEPT !.accounts =
                       [accs EXCEPT ![client].held = @ + amount,
                                    ![client].available = @ - amount]]
         IN Return(e2, Ok)

\* process_resolve without `deposit.disputed = false`
process_resolve_keeps_flag(e, client, tx) ==
    IF get_deposit_mut(e.deposits, client, tx) # Ok
    THEN Return(e, get_deposit_mut(e.deposits, client, tx))
    ELSE IF ~e.deposits[tx].disputed THEN Return(e, "TransactionNotDisputed")
    ELSE LET amount == e.deposits[tx].amount
             accs == get_or_create_mut(e.accounts, client)
             e2 == [e EXCEPT !.accounts =
                       [accs EXCEPT ![client].held = @ - amount,
                                    ![client].available = @ + amount]]
         IN Return(e2, Ok)

\* process_resolve without `account.available += amount`
process_resolve_keeps_available(e, client, tx) ==
    IF get_deposit_mut(e.deposits, client, tx) # Ok
    THEN Return(e, get_deposit_mut(e.deposits, client, tx))
    ELSE IF ~e.deposits[tx].disputed THEN Return(e, "TransactionNotDisputed")
    ELSE LET e1 == [e EXCEPT !.deposits[tx].disputed = FALSE]
             amount == e1.deposits[tx].amount
             accs == get_or_create_mut(e1.accounts, client)
             e2 == [e1 EXCEPT !.accounts = [accs EXCEPT ![client].held = @ - amount]]
         IN Return(e2, Ok)

process_resolve(e, client, tx) ==
    IF get_deposit_mut(e.deposits, client, tx) # Ok
    THEN Return(e, get_deposit_mut(e.deposits, client, tx))
    ELSE IF ~e.deposits[tx].disputed THEN Return(e, "TransactionNotDisputed")
    ELSE LET e1 == [e EXCEPT !.deposits[tx].disputed = FALSE]
             amount == e1.deposits[tx].amount
             accs == get_or_create_mut(e1.accounts, client)
             e2 == [e1 EXCEPT !.accounts =
                       [accs EXCEPT ![client].held = @ - amount,
                                    ![client].available = @ + amount]]
         IN Return(e2, Ok)

\* process_chargeback without the test of `deposit.disputed`
process_chargeback_unchecked(e, client, tx) ==
    IF get_deposit_mut(e.deposits, client, tx) # Ok
    THEN Return(e, get_deposit_mut(e.deposits, client, tx))
    ELSE LET e1 == [e EXCEPT !.deposits[tx].disputed = FALSE]
             amount == e1.deposits[tx].amount
             accs == get_or_create_mut(e1.accounts, client)
             e2 == [e1 EXCEPT !.accounts =
                       [accs EXCEPT ![client].held = @ - amount,
                                    ![client].locked = TRUE]]
         IN Return(e2, Ok)

\* process_chargeback that also re-credits available, as process_resolve does
process_chargeback_recredits(e, client, tx) ==
    IF get_deposit_mut(e.deposits, client, tx) # Ok
    THEN Return(e, get_deposit_mut(e.deposits, client, tx))
    ELSE IF ~e.deposits[tx].disputed THEN Return(e, "TransactionNotDisputed")
    ELSE LET e1 == [e EXCEPT !.deposits[tx].disputed = FALSE]
             amount == e1.deposits[tx].amount
             accs == get_or_create_mut(e1.accounts, client)
             e2 == [e1 EXCEPT !.accounts =
                       [accs EXCEPT ![client].held = @ - amount,
                                    ![client].available = @ + amount,
                                    ![client].locked = TRUE]]
         IN Return(e2, Ok)

\* process_chargeback without `account.locked = true`
process_chargeback_no_lock(e, client, tx) ==
    IF get_deposit_mut(e.deposits, client, tx) # Ok
    THEN Return(e, get_deposit_mut(e.deposits, client, tx))
    ELSE IF ~e.deposits[tx].disputed THEN Return(e, "TransactionNotDisputed")
    ELSE LET e1 == [e EXCEPT !.deposits[tx].disputed = FALSE]
             amount == e1.deposits[tx].amount
             accs == get_or_create_mut(e1.accounts, client)
             e2 == [e1 EXCEPT !.accounts = [accs EXCEPT ![client].held = @ - amount]]
         IN Return(e2, Ok)

\* process_chargeback without `account.held -= amount`
process_chargeback_keeps_held(e, client, tx) ==
    IF get_deposit_mut(e.deposits, client, tx) # Ok
    THEN Return(e, get_deposit_mut(e.deposits, client, tx))
    ELSE IF ~e.deposits[tx].disputed THEN Return(e, "TransactionNotDisputed")
    ELSE LET e1 == [e EXCEPT !.deposits[tx].disputed = FALSE]
             accs == get_or_create_mut(e1.accounts, client)
             e2 == [e1 EXCEPT !.accounts = [accs EXCEPT ![client].locked = TRUE]]
         IN Return(e2, Ok)

process_chargeback(e, client, tx) ==
    IF get_deposit_mut(e.deposits, client, tx) # Ok
    THEN Return(e, get_deposit_mut(e.deposits, client, tx))
    ELSE IF ~e.deposits[tx].disputed THEN Return(e, "TransactionNotDisputed")
    ELSE LET e1 == [e EXCEPT !.deposits[tx].disputed = FALSE]
             amount == e1.deposits[tx].amount
             accs == get_or_create_mut(e1.accounts, client)
             e2 == [e1 EXCEPT !.accounts =
                       [accs EXCEPT ![client].held = @ - amount,
                                    ![client].locked = TRUE]]
         IN Return(e2, Ok)

\* the dispatch with `amount.unwrap_or_default()` for `amount.ok_or(InvalidTransaction)?`
dispatch_amount_defaults(e, t) ==
    CASE t.tx_type = "Deposit" ->
           process_deposit(e, t.client, t.tx, IF t.amount = None THEN 0 ELSE unwrap(t.amount))
      [] t.tx_type = "Withdrawal" ->
           process_withdrawal(e, t.client, t.tx, IF t.amount = None THEN 0 ELSE unwrap(t.amount))
      [] t.tx_type = "Dispute" -> process_dispute(e, t.client, t.tx)
      [] t.tx_type = "Resolve" -> process_resolve(e, t.client, t.tx)
      [] t.tx_type = "Chargeback" -> process_chargeback(e, t.client, t.tx)

\* the type dispatch of process_transaction, after the lock check
dispatch(e, t) ==
    CASE t.tx_type = "Deposit" ->
           IF t.amount = None THEN Return(e, "InvalidTransaction")
           ELSE process_deposit(e, t.client, t.tx, unwrap(t.amount))
      [] t.tx_type = "Withdrawal" ->
           IF t.amount = None THEN Return(e, "InvalidTransaction")
           ELSE process_withdrawal(e, t.client, t.tx, unwrap(t.amount))
      [] t.tx_type = "Dispute" -> process_dispute(e, t.client, t.tx)
      [] t.tx_type = "Resolve" -> process_resolve(e, t.client, t.tx)
      [] t.tx_type = "Chargeback" -> process_chargeback(e, t.client, t.tx)

\* process_transaction with the lock check made for deposits and withdrawals only
process_transaction_unlocked_references(e, t) ==
    IF t.tx_type \in {"Deposit", "Withdrawal"} /\ check_account_lock(e.accounts, t.client) # Ok
    THEN Return(e, check_account_lock(e.accounts, t.client))
    ELSE dispatch(e, t)

\* process_transaction with the lock check moved behind the amount check
process_transaction_amount_first(e, t) ==
    IF t.tx_type \in {"Deposit", "Withdrawal"} /\ t.amount = None
    THEN Return(e, "InvalidTransaction")
    ELSE IF check_account_lock(e.accounts, t.client) # Ok
    THEN Return(e, check_account_lock(e.accounts, t.client))
    ELSE dispatch(e, t)

process_transaction(e, t) ==
    IF check_account_lock(e.accounts, t.client) # Ok
    THEN Return(e, check_account_lock(e.accounts, t.client))
    ELSE dispatch(e, t)

\* ---- state machine ----

NoTransaction == [tx_type |-> "none", client |-> 0, tx |-> 0, amount |-> None]

\* Engine::new()
NewEngine ==
    /\ accounts = <<>>
    /\ deposits = <<>>
    /\ processed_transactions = {}
    /\ transaction = NoTransaction
    /\ result = "none"
    /\ applied = {}
    /\ charged_back = {}
    /\ resolved = {}

\* no entry point is running: the engine is driven through its own interface
NoRunner ==
    /\ runner = "none"
    /\ records = <<>>
    /\ position = 0
    /\ channel = <<>>
    /\ reader_handle = "none"
    /\ processor_handle = "none"
    /\ outcome = "none"
    /\ output = <<>>
    /\ received = <<>>

Init == NewEngine /\ NoRunner

\* the effect and the return value of engine.process_transaction(t) on the engine
Apply(t) ==
    LET r == process_transaction(Engine, t) IN
    /\ accounts' = r.engine.accounts
    /\ deposits' = r.engine.deposits
    /\ processed_transactions' = r.engine.processed_transactions
    /\ result' = r.result
    /\ applied' = IF t.tx_type \in {"Deposit", "Withdrawal"} /\ r.result = Ok
                  THEN applied \cup {t} ELSE applied
    /\ charged_back' = IF t.tx_type = "Chargeback" /\ r.result = Ok
                       THEN charged_back \cup {t.tx} ELSE charged_back
    /\ resolved' = IF t.tx_type = "Resolve" /\ r.result = Ok
                   THEN resolved \cup {t.tx} ELSE resolved

\* one call engine.process_transaction(t) made by a user of the Engine
Call(t) == Apply(t) /\ UNCHANGED runner_vars

Deposit ==
    \E c \in Clients, x \in TxIds, a \in Amounts :
        LET t == [tx_type |-> "Deposit", client |-> c, tx |-> x, amount |-> a]
        IN /\ transaction' = t
           /\ Call(t)
Withdrawal ==
    \E c \in Clients, x \in TxIds, a \in Amounts :
        LET t == [tx_type |-> "Withdrawal", client |-> c, tx |-> x, amount |-> a]
        IN /\ transaction' = t
           /\ Call(t)
Dispute ==
    \E c \in Clients, x \in TxIds, a \in ReferenceAmounts :
        LET t == [tx_type |-> "Dispute", client |-> c, tx |-> x, amount |-> a]
        IN /\ transaction' = t
           /\ Call(t)
Resolve ==
    \E c \in Clients, x \in TxIds, a \in ReferenceAmounts :
        LET t == [tx_type |-> "Resolve", client |-> c, tx |-> x, amount |-> a]
        IN /\ transaction' = t
           /\ Call(t)
Chargeback ==
    \E c \in Clients, x \in TxIds, a \in ReferenceAmounts :
        LET t == [tx_type |-> "Chargeback", client |-> c, tx |-> x, amount |-> a]
        IN /\ transaction' = t
           /\ Call(t)

Next == Deposit \/ Withdrawal \/ Dispute \/ Resolve \/ Chargeback

Spec == Init /\ [][Next]_vars

\* ---- the engine alone: calls of process_transaction, nothing recorded ----

\* one call engine.process_transaction(t) whose result the caller drops
ProcessTransaction ==
    \E t \in Transaction :
        LET r == process_transaction(Engine, t) IN
        /\ accounts' = r.engine.accounts
        /\ deposits' = r.engine.deposits
        /\ processed_transactions' = r.engine.processed_transactions
        /\ UNCHANGED <<transaction, result, applied, charged_back, resolved>>
        /\ UNCHANGED runner_vars

EngineSpec == Init /\ [][ProcessTransaction]_vars

\* ---- runs over the amounts of test_chargeback_results_in_negative_balance ----

\* dec!(100.0) and dec!(75.0) in units of 0.0001
ScenarioDepositAmount == 1000000
ScenarioWithdrawalAmount == 750000

ScenarioTransaction ==
    [tx_type : {"Deposit", "Withdrawal"}, client : Clients, tx : TxIds,
     amount : {Some(ScenarioDepositAmount), Some(ScenarioWithdrawalAmount)}]
    \cup [tx_type : {"Dispute", "Resolve", "Chargeback"}, client : Clients, tx : TxIds,
          amount : {None}]

\* one call engine.process_transaction(t) with a row of the scenario
ScenarioStep ==
    \E t \in ScenarioTransaction :
        /\ transaction' = t
        /\ Call(t)

ScenarioSpec == Init /\ [][ScenarioStep]_vars

\* Streams that hold deposit and withdrawal rows only
PaymentsSpec == Init /\ [][Deposit \/ Withdrawal]_vars

\* ---- TransactionsStore driven through its own interface, as its unit tests do ----

StoreNewDeposit ==
    \E x \in TxIds, c \in Clients, a \in Decimals :
        LET stored == store_new_deposit(deposits, x, c, a)
        IN /\ deposits' = stored.deposits
           /\ result' = stored.result
           /\ UNCHANGED <<accounts, processed_transactions, transaction, applied,
                          charged_back, resolved>>
           /\ UNCHANGED runner_vars

\* mark_processed returns no value
MarkProcessed ==
    \E x \in TxIds :
        /\ processed_transactions' = mark_processed(processed_transactions, x)
        /\ result' = "none"
        /\ UNCHANGED <<accounts, deposits, transaction, applied, charged_back, resolved>>
        /\ UNCHANGED runner_vars

StoreSpec == Init /\ [][StoreNewDeposit \/ MarkProcessed]_vars

\* ---- the entry points: run (runner.rs), run_async (runner/async_runner.rs) ----
\* ---- and the command line's run (main.rs)                                 ----
\* The input file is its sequence of records, each a parsed Transaction or a
\* row the deserializer rejects.  The output is the sequence of AccountRows
\* passed to write_csv; the writer and the file system do not fail.

MaxRecords == 3
MaxQueue == 2
BUFFER_SIZE == 1024

\* mpsc::channel(BUFFER_SIZE), no larger than the model's queues
Capacity == IF BUFFER_SIZE < MaxQueue THEN BUFFER_SIZE ELSE MaxQueue

\* a row for which the deserializer yields Err
Malformed == [tx_type |-> "malformed", client |-> 0, tx |-> 0, amount |-> None]

\* the records of the input files
InputRecord ==
    {t \in Transaction : t.tx_type \in {"Deposit", "Withdrawal"} /\ t.amount = Some(1)}
    \cup {Malformed}
Inputs == UNION {[1..n -> InputRecord] : n \in 0..MaxRecords}

Runners == {"run", "run_async", "main"}

\* one of the entry points has been called on one of the files
Started(entry_points, files) ==
    /\ runner \in entry_points
    /\ records \in files
    /\ position = 0
    /\ channel = <<>>
    /\ reader_handle = IF runner = "run_async" THEN "running" ELSE "none"
    /\ processor_handle = IF runner = "run_async" THEN "running" ELSE "none"
    /\ outcome = "running"
    /\ output = <<>>
    /\ received = <<>>

RunnerInit == NewEngine /\ Started(Runners, Inputs)

\* impl From<&Account> for AccountRow
AccountRow(account) ==
    [client |-> account.id, available |-> account.available, held |-> account.held,
     total |-> total(account), locked |-> account.locked]

\* the orders in which engine.accounts() may yield the accounts of the HashMap
Iterations(accs) ==
    {order \in [1..Cardinality(DOMAIN accs) -> DOMAIN accs] :
        \A i, j \in DOMAIN order : i # j => order[i] # order[j]}

\* engine.accounts().map(AccountRow::from).collect()
collect(accs, order) == [i \in DOMAIN order |-> AccountRow(accs[order[i]])]

\* accounts.sort_by_key(|row| row.client) left out
sort_by_key_omitted(v) == v

RECURSIVE sort_by_key(_)
\* accounts.sort_by_key(|row| row.client), a stable sort
sort_by_key(v) ==
    IF v = <<>> THEN <<>>
    ELSE LET sorted == sort_by_key(SubSeq(v, 1, Len(v) - 1))
             row == v[Len(v)]
             before == SelectSeq(sorted, LAMBDA r : r.client <= row.client)
             after == SelectSeq(sorted, LAMBDA r : r.client > row.client)
         IN before \o <<row>> \o after

\* the engine takes the transaction t
Process(t) ==
    /\ transaction' = t
    /\ Apply(t)
    /\ received' = Append(received, t)

\* -- run: one pass of `for transaction in transactions_iter` --

\* the loop of run ending at the first transaction the engine rejects
RunProcess_stops_on_rejection ==
    /\ runner = "run"
    /\ outcome = "running"
    /\ position < Len(records)
    /\ records[position + 1] # Malformed
    /\ position' = position + 1
    /\ Process(records[position + 1])
    /\ outcome' = IF process_transaction(Engine, records[position + 1]).result = Ok
                  THEN outcome ELSE "Err"
    /\ UNCHANGED <<runner, records, channel, reader_handle, processor_handle, output>>

RunProcess ==
    /\ runner = "run"
    /\ outcome = "running"
    /\ position < Len(records)
    /\ records[position + 1] # Malformed
    /\ position' = position + 1
    /\ Process(records[position + 1])
    /\ UNCHANGED <<runner, records, channel, reader_handle, processor_handle, outcome,
                   output>>

\* the loop of run going past a row that fails to parse
RunParseError_skips ==
    /\ runner = "run"
    /\ outcome = "running"
    /\ position < Len(records)
    /\ records[position + 1] = Malformed
    /\ position' = position + 1
    /\ UNCHANGED engine_vars
    /\ UNCHANGED <<runner, records, channel, reader_handle, processor_handle, outcome,
                   output, received>>

\* `let transaction = transaction?;` on a row that fails to parse
RunParseError ==
    /\ runner = "run"
    /\ outcome = "running"
    /\ position < Len(records)
    /\ records[position + 1] = Malformed
    /\ position' = position + 1
    /\ outcome' = "Err"
    /\ UNCHANGED engine_vars
    /\ UNCHANGED <<runner, records, channel, reader_handle, processor_handle, output,
                   received>>

\* run writing the rows in the order the HashMap yields them
RunWrite_unsorted ==
    /\ runner = "run"
    /\ outcome = "running"
    /\ position = Len(records)
    /\ \E order \in Iterations(accounts) : output' = collect(accounts, order)
    /\ outcome' = "Ok"
    /\ UNCHANGED engine_vars
    /\ UNCHANGED <<runner, records, position, channel, reader_handle, processor_handle,
                   received>>

\* after the loop: collect, sort, write_csv, Ok(())
RunWrite ==
    /\ runner = "run"
    /\ outcome = "running"
    /\ position = Len(records)
    /\ \E order \in Iterations(accounts) :
           output' = sort_by_key(collect(accounts, order))
    /\ outcome' = "Ok"
    /\ UNCHANGED engine_vars
    /\ UNCHANGED <<runner, records, position, channel, reader_handle, processor_handle,
                   received>>

\* -- main.rs run: `for transaction in transactions_iter.flatten()` --

MainProcess ==
    /\ runner = "main"
    /\ outcome = "running"
    /\ position < Len(records)
    /\ records[position + 1] # Malformed
    /\ position' = position + 1
    /\ Process(records[position + 1])
    /\ UNCHANGED <<runner, records, channel, reader_handle, processor_handle, outcome,
                   output>>

\* flatten() drops the Err of a row that fails to parse
MainSkip ==
    /\ runner = "main"
    /\ outcome = "running"
    /\ position < Len(records)
    /\ records[position + 1] = Malformed
    /\ position' = position + 1
    /\ UNCHANGED engine_vars
    /\ UNCHANGED <<runner, records, channel, reader_handle, processor_handle, outcome,
                   output, received>>

\* write_csv(stdout, engine.accounts().map(AccountRow::from)), Ok(())
MainWrite ==
    /\ runner = "main"
    /\ outcome = "running"
    /\ position = Len(records)
    /\ \E order \in Iterations(accounts) : output' = collect(accounts, order)
    /\ outcome' = "Ok"
    /\ UNCHANGED engine_vars
    /\ UNCHANGED <<runner, records, position, channel, reader_handle, processor_handle,
                   received>>

\* -- run_async: the read_transactions task --

\* the receiver is gone: the processor task has returned
ReceiverDropped == processor_handle = "done"

\* read_transactions over an unbounded channel: send never waits
ReaderSend_unbounded ==
    /\ runner = "run_async"
    /\ reader_handle = "running"
    /\ position < Len(records)
    /\ records[position + 1] # Malformed
    /\ position' = position + 1
    /\ channel' = Append(channel, records[position + 1])
    /\ UNCHANGED reader_handle
    /\ UNCHANGED engine_vars
    /\ UNCHANGED <<runner, records, processor_handle, outcome, output, received>>

\* Ok(transaction) => tx.send(transaction).await: waits while the channel is
\* full; is_err() when the receiver is gone, and then `break` to Ok(())
ReaderSend ==
    /\ runner = "run_async"
    /\ reader_handle = "running"
    /\ position < Len(records)
    /\ records[position + 1] # Malformed
    /\ Len(channel) < Capacity \/ ReceiverDropped
    /\ position' = position + 1
    /\ IF ReceiverDropped
       THEN reader_handle' = "Ok" /\ UNCHANGED channel
       ELSE channel' = Append(channel, records[position + 1]) /\ UNCHANGED reader_handle
    /\ UNCHANGED engine_vars
    /\ UNCHANGED <<runner, records, processor_handle, outcome, output, received>>

\* read_transactions going past a row that fails to parse
ReaderParseError_skips ==
    /\ runner = "run_async"
    /\ reader_handle = "running"
    /\ position < Len(records)
    /\ records[position + 1] = Malformed
    /\ position' = position + 1
    /\ UNCHANGED engine_vars
    /\ UNCHANGED <<runner, records, channel, reader_handle, processor_handle, outcome,
                   output, received>>

\* Err(e) => return Err(e); the sender is dropped with the task
ReaderParseError ==
    /\ runner = "run_async"
    /\ reader_handle = "running"
    /\ position < Len(records)
    /\ records[position + 1] = Malformed
    /\ position' = position + 1
    /\ reader_handle' = "Err"
    /\ UNCHANGED engine_vars
    /\ UNCHANGED <<runner, records, channel, processor_handle, outcome, output, received>>

\* records.next() is None: Ok(()); the sender is dropped with the task
ReaderFinish ==
    /\ runner = "run_async"
    /\ reader_handle = "running"
    /\ position = Len(records)
    /\ reader_handle' = "Ok"
    /\ UNCHANGED engine_vars
    /\ UNCHANGED <<runner, records, position, channel, processor_handle, outcome, output,
                   received>>

\* -- run_async: the process_transactions task --

\* the sender is gone: the reader task has returned
Closed == reader_handle \in {"Ok", "Err"}

\* a receiver that hands out the newest queued transaction
ProcessorReceive_newest_first ==
    /\ runner = "run_async"
    /\ processor_handle = "running"
    /\ channel # <<>>
    /\ channel' = SubSeq(channel, 1, Len(channel) - 1)
    /\ Process(channel[Len(channel)])
    /\ UNCHANGED <<runner, records, position, reader_handle, processor_handle, outcome,
                   output>>

\* Some(transaction) = rx.recv().await, engine.process_transaction(transaction)
ProcessorReceive ==
    /\ runner = "run_async"
    /\ processor_handle = "running"
    /\ channel # <<>>
    /\ channel' = Tail(channel)
    /\ Process(Head(channel))
    /\ UNCHANGED <<runner, records, position, reader_handle, processor_handle, outcome,
                   output>>

\* rx.recv().await is None: the channel is closed and empty; returns the engine
ProcessorFinish ==
    /\ runner = "run_async"
    /\ processor_handle = "running"
    /\ channel = <<>>
    /\ Closed
    /\ processor_handle' = "done"
    /\ UNCHANGED engine_vars
    /\ UNCHANGED <<runner, records, position, channel, reader_handle, outcome, output,
                   received>>

\* -- run_async: the task of run itself --

\* reader_handle.await?? on Err: run returns the error; the processor task
\* is detached and goes on
AsyncReturnError ==
    /\ runner = "run_async"
    /\ outcome = "running"
    /\ reader_handle = "Err"
    /\ outcome' = "Err"
    /\ UNCHANGED engine_vars
    /\ UNCHANGED <<runner, records, position, channel, reader_handle, processor_handle,
                   output, received>>

\* both handles awaited: collect, sort, write_csv, Ok(())
AsyncWrite ==
    /\ runner = "run_async"
    /\ outcome = "running"
    /\ reader_handle = "Ok"
    /\ processor_handle = "done"
    /\ \E order \in Iterations(accounts) :
           output' = sort_by_key(collect(accounts, order))
    /\ outcome' = "Ok"
    /\ UNCHANGED engine_vars
    /\ UNCHANGED <<runner, records, position, channel, reader_handle, processor_handle,
                   received>>

\* -- the three entry points over every input file --

Run == RunProcess \/ RunParseError \/ RunWrite
Main == MainProcess \/ MainSkip \/ MainWrite
Reader == ReaderSend \/ ReaderParseError \/ ReaderFinish
Processor == ProcessorReceive \/ ProcessorFinish
RunAsync == AsyncReturnError \/ AsyncWrite

RunnerNext ==
    \/ RunProcess \/ RunParseError \/ RunWrite
    \/ MainProcess \/ MainSkip \/ MainWrite
    \/ ReaderSend \/ ReaderParseError \/ ReaderFinish
    \/ ProcessorReceive \/ ProcessorFinish
    \/ AsyncReturnError \/ AsyncWrite

\* the thread of run and of main keeps running; the tokio runtime polls every
\* task that can make progress
RunnerFairness ==
    /\ WF_vars(Run)
    /\ WF_vars(Main)
    /\ WF_vars(Reader)
    /\ WF_vars(Processor)
    /\ WF_vars(RunAsync)

RunnerSpec == RunnerInit /\ [][RunnerNext]_vars /\ RunnerFairness

\* ---- run and run_async over the rows of data/example_input.csv ----

\* the rows as test_read_csv lists them, amounts in units of 0.0001
ExampleInput ==
    << [tx_type |-> "Deposit", client |-> 1, tx |-> 1, amount |-> Some(10000)],
       [tx_type |-> "Deposit", client |-> 2, tx |-> 2, amount |-> Some(20000)],
       [tx_type |-> "Deposit", client |-> 1, tx |-> 3, amount |-> Some(20000)],
       [tx_type |-> "Withdrawal", client |-> 1, tx |-> 4, amount |-> Some(15000)],
       [tx_type |-> "Withdrawal", client |-> 2, tx |-> 5, amount |-> Some(30000)] >>

\* the files that hold the rows of file in some order
Orderings(file) ==
    {[i \in DOMAIN file |-> file[p[i]]] : p \in Permutations(DOMAIN file)}

ExampleInit == NewEngine /\ Started({"run", "run_async"}, Orderings(ExampleInput))

\* every row parses: the steps for a malformed row are never enabled
ExampleNext ==
    \/ RunProcess \/ RunWrite
    \/ ReaderSend \/ ReaderFinish
    \/ ProcessorReceive \/ ProcessorFinish
    \/ AsyncWrite

ExampleSpec == ExampleInit /\ [][ExampleNext]_vars /\ RunnerFairness

TypeOK ==
    /\ DOMAIN accounts \subseteq Clients
    /\ DOMAIN deposits \subseteq TxIds
    /\ processed_transactions \subseteq TxIds

\* ---- run over rows whose amounts carry more than four fractional digits ----
\* Here, and only here, a Decimal counts units of 10^-9, so that the digits
\* behind the fourth exist: 0.12345 is 123450000 and 0.0001 is Fraction.  The
\* records of the file are the rows as written; the reader deserializes each
\* row on its way to the engine and the writer serializes each AccountRow.

Fraction == 100000

\* dec.round_dp_with_strategy(4, RoundingStrategy::ToZero)
round_dp_with_strategy(dec) ==
    IF dec >= 0 THEN (dec \div Fraction) * Fraction
    ELSE 0 - (((0 - dec) \div Fraction) * Fraction)

\* deserialize_decimal_4dp rounding to the nearest 0.0001, halves away from zero
deserialize_decimal_4dp_nearest(opt) ==
    IF opt = None THEN None
    ELSE IF unwrap(opt) >= 0
         THEN Some(((unwrap(opt) + Fraction \div 2) \div Fraction) * Fraction)
         ELSE Some(0 - ((((0 - unwrap(opt)) + Fraction \div 2) \div Fraction) * Fraction))

\* deserialize_decimal_4dp handing the amount on as written
deserialize_decimal_4dp_exact(opt) == opt

deserialize_decimal_4dp(opt) ==
    IF opt = None THEN None ELSE Some(round_dp_with_strategy(unwrap(opt)))

\* the text of the rounded value, taken for the value it denotes
serialize_decimal_4dp(value) == round_dp_with_strategy(value)

\* the amounts written in the files: 0.12345, 0.123499999, 0.1234, 0.00009
\* and -0.12345
CsvAmounts == {123450000, 123499999, 123400000, 90000, 0 - 123450000}

\* the rows of the files, all of the first client
CsvRecord ==
    {[tx_type |-> "Deposit", client |-> 1, tx |-> x, amount |-> Some(a)] :
        x \in TxIds, a \in CsvAmounts}
    \cup {[tx_type |-> "Withdrawal", client |-> 1, tx |-> x, amount |-> Some(a)] :
        x \in TxIds, a \in {123450000, 90000}}
    \cup {[tx_type |-> type, client |-> 1, tx |-> x, amount |-> None] :
        type \in {"Dispute", "Resolve"}, x \in TxIds}
CsvFiles == UNION {[1..n -> CsvRecord] : n \in 0..MaxRecords}

\* #[derive(Deserialize)] of Transaction: amount goes through deserialize_decimal_4dp
Deserialize(row) == [row EXCEPT !.amount = deserialize_decimal_4dp(@)]

\* #[derive(Serialize)] of AccountRow: the three amounts go through serialize_decimal_4dp
Serialize(row) ==
    [row EXCEPT !.available = serialize_decimal_4dp(@),
                !.held = serialize_decimal_4dp(@),
                !.total = serialize_decimal_4dp(@)]

IngestInit == NewEngine /\ Started({"run"}, CsvFiles)

\* one pass of the loop of run: the reader yields the next row deserialized
IngestProcess ==
    /\ outcome = "running"
    /\ position < Len(records)
    /\ position' = position + 1
    /\ Process(Deserialize(records[position + 1]))
    /\ UNCHANGED <<runner, records, channel, reader_handle, processor_handle, outcome,
                   output>>

\* after the loop: collect, sort, write_csv serializing each row, Ok(())
IngestWrite ==
    /\ outcome = "running"
    /\ position = Len(records)
    /\ \E order \in Iterations(accounts) :
           output' = LET sorted == sort_by_key(collect(accounts, order))
                     IN [i \in DOMAIN sorted |-> Serialize(sorted[i])]
    /\ outcome' = "Ok"
    /\ UNCHANGED engine_vars
    /\ UNCHANGED <<runner, records, position, channel, reader_handle, processor_handle,
                   received>>

IngestNext == IngestProcess \/ IngestWrite

IngestSpec == IngestInit /\ [][IngestNext]_vars

\* ---- properties ----

\* the Error variants a call can return
Errors == {"AccountLocked", "AccountNotFound", "AmountMustBePositive", "DuplicateTransaction",
           "InsufficientFunds", "InvalidTransaction", "TransactionAlreadyDisputed",
           "TransactionNotDisputed", "TransactionNotFound", "TransactionClientMismatch"}

\* the account of client exists and is locked
Locked(client) == client \in DOMAIN accounts /\ accounts[client].locked

\* clients for whom a chargeback has succeeded
ChargedBackClients == {deposits[x].client : x \in charged_back}

\* C1: after a chargeback has succeeded for client c, c's account is locked and
\* every call of process_transaction for c, of any type, tx and amount, returns
\* AccountLocked and leaves accounts, deposits and the processed set as they were.
C1_ChargebackTerminalLock ==
    \A c \in ChargedBackClients :
        /\ Locked(c)
        /\ \A t \in Transaction :
              t.client = c => process_transaction(Engine, t) = Return(Engine, "AccountLocked")

\* C1 witness: a call for a charged-back client has been rejected with AccountLocked
C1_Witness ==
    /\ transaction.client \in ChargedBackClients
    /\ transaction.tx_type = "Deposit"
    /\ result = "AccountLocked"

\* C2: whenever process_transaction returns an error, the accounts map, the
\* deposit records (with their disputed flags) and the processed-id set are
\* the same after the call as before it.
C2_RejectionLeavesLedgerUnchanged ==
    \A t \in Transaction :
        LET r == process_transaction(Engine, t) IN
        /\ r.result \in Errors \cup {Ok}
        /\ r.result # Ok => r.engine = Engine

\* C2 witness: a withdrawal was rejected for insufficient funds on a ledger
\* that holds an account and a deposit record
C2_Witness ==
    /\ result = "InsufficientFunds"
    /\ transaction.tx_type = "Withdrawal"
    /\ transaction.client \in DOMAIN accounts
    /\ DOMAIN deposits # {}

\* C3: if the account of t.client exists and is locked, process_transaction
\* returns AccountLocked for every transaction type, also when the amount is
\* missing or not positive, the tx is already processed or unknown, the tx is
\* owned by another client or the deposit is not disputed.
C3_LockCheckFirst ==
    \A t \in Transaction :
        Locked(t.client) => process_transaction(Engine, t).result = "AccountLocked"

\* C3 witness: a deposit without amount for a locked client returned AccountLocked
C3_Witness ==
    /\ Locked(transaction.client)
    /\ transaction.tx_type = "Deposit"
    /\ transaction.amount = None
    /\ result = "AccountLocked"

\* a deposit or withdrawal row
IsPayment(t) == t.tx_type \in {"Deposit", "Withdrawal"}

\* a deposit or withdrawal row that carries a positive amount
IsPositivePayment(t) == IsPayment(t) /\ t.amount # None /\ unwrap(t.amount) > 0

\* C4: once a deposit or withdrawal has been applied successfully, applying
\* the same transaction again returns DuplicateTransaction and leaves the
\* engine exactly as the single application left it; this holds for the
\* immediate repetition and for every later one while the account is unlocked.
C4_DuplicateIdempotence ==
    /\ \A t \in Transaction :
          LET first == process_transaction(Engine, t) IN
          (IsPayment(t) /\ first.result = Ok) =>
              process_transaction(first.engine, t) =
                  Return(first.engine, "DuplicateTransaction")
    /\ \A t \in applied :
          ~Locked(t.client) =>
              process_transaction(Engine, t) = Return(Engine, "DuplicateTransaction")

\* C4 witness: a withdrawal that had been applied was submitted again and
\* returned DuplicateTransaction
C4_Witness ==
    /\ transaction \in applied
    /\ transaction.tx_type = "Withdrawal"
    /\ result = "DuplicateTransaction"

\* C5 as stated: once a deposit (withdrawal) with id t has succeeded, every
\* withdrawal (deposit) with id t and a positive amount, from any client,
\* returns DuplicateTransaction.
C5_SharedNamespaceAnyClient ==
    \A a \in applied : \A t \in Transaction :
        (IsPositivePayment(t) /\ t.tx = a.tx /\ t.tx_type # a.tx_type) =>
            process_transaction(Engine, t).result = "DuplicateTransaction"

\* C5 amended: once a deposit (withdrawal) with id t has succeeded, every
\* withdrawal (deposit) with id t and a positive amount is rejected without
\* changing the engine: with DuplicateTransaction when the account of its
\* client is not locked, with AccountLocked when it is.
C5_SharedNamespace ==
    \A a \in applied : \A t \in Transaction :
        (IsPositivePayment(t) /\ t.tx = a.tx /\ t.tx_type # a.tx_type) =>
            process_transaction(Engine, t) =
                Return(Engine, IF Locked(t.client) THEN "AccountLocked"
                               ELSE "DuplicateTransaction")

\* C5 witness: a withdrawal by another client reused the id of an applied
\* deposit and returned DuplicateTransaction
C5_Witness ==
    /\ transaction.tx_type = "Withdrawal"
    /\ result = "DuplicateTransaction"
    /\ \E a \in applied : /\ a.tx_type = "Deposit"
                          /\ a.tx = transaction.tx
                          /\ a.client # transaction.client

\* C6: a deposit on an unlocked account with a positive amount and an
\* unprocessed tx succeeds; a successful deposit creates the client's account
\* if absent, adds exactly amount to its available, leaves held and locked,
\* stores the record {client, amount, disputed = false} under tx, adds tx to
\* the processed set and changes no other account or record.
C6_DepositEffect ==
    \A t \in Transaction :
        t.tx_type = "Deposit" =>
            LET r == process_transaction(Engine, t)
                before == IF t.client \in DOMAIN accounts THEN accounts[t.client]
                          ELSE NewAccount(t.client)
            IN /\ (/\ ~Locked(t.client)
                   /\ IsPositivePayment(t)
                   /\ t.tx \notin processed_transactions) => r.result = Ok
               /\ r.result = Ok =>
                    /\ IsPositivePayment(t)
                    /\ t.tx \notin processed_transactions
                    /\ t.tx \notin DOMAIN deposits
                    /\ DOMAIN r.engine.accounts = DOMAIN accounts \cup {t.client}
                    /\ r.engine.accounts[t.client] =
                           [before EXCEPT !.available = @ + unwrap(t.amount)]
                    /\ \A c \in DOMAIN accounts \ {t.client} :
                           r.engine.accounts[c] = accounts[c]
                    /\ DOMAIN r.engine.deposits = DOMAIN deposits \cup {t.tx}
                    /\ r.engine.deposits[t.tx] =
                           [client |-> t.client, amount |-> unwrap(t.amount),
                            disputed |-> FALSE]
                    /\ \A x \in DOMAIN deposits : r.engine.deposits[x] = deposits[x]
                    /\ r.engine.processed_transactions =
                           processed_transactions \cup {t.tx}

\* C6 witness: a deposit succeeded and created its record next to another
\* client's account and record
C6_Witness ==
    /\ transaction.tx_type = "Deposit"
    /\ result = Ok
    /\ deposits[transaction.tx] = [client |-> transaction.client,
                                   amount |-> unwrap(transaction.amount),
                                   disputed |-> FALSE]
    /\ \E x \in DOMAIN deposits : deposits[x].client # transaction.client
    /\ Cardinality(DOMAIN accounts) > 1

\* C7: a withdrawal with a positive amount, an unprocessed tx and an existing
\* unlocked account succeeds exactly when available >= amount; on success
\* available drops by amount, tx joins the processed set and nothing else
\* changes (no record is created); otherwise it returns InsufficientFunds.
C7_WithdrawalEffect ==
    \A t \in Transaction :
        (/\ t.tx_type = "Withdrawal"
         /\ IsPositivePayment(t)
         /\ t.tx \notin processed_transactions
         /\ t.client \in DOMAIN accounts
         /\ ~Locked(t.client)) =>
            LET r == process_transaction(Engine, t)
                amount == unwrap(t.amount)
            IN IF accounts[t.client].available >= amount
               THEN r = Return([Engine EXCEPT
                                   !.accounts[t.client].available = @ - amount,
                                   !.processed_transactions = @ \cup {t.tx}], Ok)
               ELSE r = Return(Engine, "InsufficientFunds")

\* C7 witness: a withdrawal of exactly the available balance succeeded and
\* left 0
C7_Witness ==
    /\ transaction.tx_type = "Withdrawal"
    /\ result = Ok
    /\ accounts[transaction.client].available = 0
    /\ accounts[transaction.client].held = 0

\* the outcome the stated precedence gives a deposit or withdrawal that
\* carries an amount
Precedence(t) ==
    IF unwrap(t.amount) <= 0 THEN "AmountMustBePositive"
    ELSE IF t.tx \in processed_transactions THEN "DuplicateTransaction"
    ELSE IF t.tx_type = "Deposit" THEN Ok
    ELSE IF t.client \notin DOMAIN accounts THEN "AccountNotFound"
    ELSE IF accounts[t.client].available < unwrap(t.amount) THEN "InsufficientFunds"
    ELSE Ok

\* C8: on an unlocked account a deposit or withdrawal that carries an amount
\* is rejected in the order AmountMustBePositive (amount <= 0), then
\* DuplicateTransaction (tx processed), then for withdrawals AccountNotFound
\* (client unknown), then InsufficientFunds.
C8_RejectionPrecedence ==
    \A t \in Transaction :
        (IsPayment(t) /\ t.amount # None /\ ~Locked(t.client)) =>
            process_transaction(Engine, t).result = Precedence(t)

\* C8 witness: a withdrawal with a processed tx for an unknown client
\* returned DuplicateTransaction
C8_Witness ==
    /\ transaction.tx_type = "Withdrawal"
    /\ IsPositivePayment(transaction)
    /\ transaction.tx \in processed_transactions
    /\ transaction.client \notin DOMAIN accounts
    /\ result = "DuplicateTransaction"

\* C9: a deposit or withdrawal without amount on an account that is not
\* locked returns InvalidTransaction and leaves the engine unchanged,
\* whatever its tx and client.
C9_MissingAmount ==
    \A t \in Transaction :
        (IsPayment(t) /\ t.amount = None /\ ~Locked(t.client)) =>
            process_transaction(Engine, t) = Return(Engine, "InvalidTransaction")

\* C9 witness: a withdrawal without amount, with a processed tx and an
\* unknown client, returned InvalidTransaction
C9_Witness ==
    /\ transaction.tx_type = "Withdrawal"
    /\ transaction.amount = None
    /\ transaction.tx \in processed_transactions
    /\ transaction.client \notin DOMAIN accounts
    /\ result = "InvalidTransaction"

\* the outcome the stated order of checks gives dispute(client, tx)
DisputeOutcome(client, tx) ==
    IF tx \notin DOMAIN deposits THEN "TransactionNotFound"
    ELSE IF deposits[tx].client # client THEN "TransactionClientMismatch"
    ELSE IF deposits[tx].disputed THEN "TransactionAlreadyDisputed"
    ELSE Ok

\* C10: a dispute succeeds only against a deposit record that exists, is
\* owned by the client and is not disputed; otherwise it is rejected, the
\* handler testing in the order TransactionNotFound, TransactionClientMismatch,
\* TransactionAlreadyDisputed.
C10_DisputePreconditions ==
    /\ \A c \in Clients, x \in TxIds :
          process_dispute(Engine, c, x).result = DisputeOutcome(c, x)
    /\ \A t \in Transaction :
          t.tx_type = "Dispute" =>
              LET r == process_transaction(Engine, t) IN
              /\ r.result = Ok => DisputeOutcome(t.client, t.tx) = Ok
              /\ ~Locked(t.client) => r.result = DisputeOutcome(t.client, t.tx)

\* C10 witness: a dispute of another client's record that is already disputed
\* returned TransactionClientMismatch
C10_Witness ==
    /\ transaction.tx_type = "Dispute"
    /\ transaction.tx \in DOMAIN deposits
    /\ deposits[transaction.tx].disputed
    /\ result = "TransactionClientMismatch"

\* C11: a successful dispute of a deposit of amount a sets the record's
\* disputed flag, adds a to the owner's held and takes a from the owner's
\* available (which may become negative), so total and locked stay as they
\* were, and it changes nothing else (the processed set included).
C11_DisputeEffect ==
    \A t \in Transaction :
        LET r == process_transaction(Engine, t) IN
        (t.tx_type = "Dispute" /\ r.result = Ok) =>
            LET a == deposits[t.tx].amount IN
            /\ r.engine = [Engine EXCEPT !.deposits[t.tx].disputed = TRUE,
                                         !.accounts[t.client].held = @ + a,
                                         !.accounts[t.client].available = @ - a]
            /\ total(r.engine.accounts[t.client]) = total(accounts[t.client])
            /\ r.engine.accounts[t.client].locked = accounts[t.client].locked
            /\ r.engine.processed_transactions = processed_transactions

\* C11 witness: a dispute succeeded and left a negative available
C11_Witness ==
    /\ transaction.tx_type = "Dispute"
    /\ result = Ok
    /\ deposits[transaction.tx].disputed
    /\ accounts[transaction.client].available < 0
    /\ accounts[transaction.client].held = deposits[transaction.tx].amount

\* a resolve or chargeback row
IsSettlement(t) == t.tx_type \in {"Resolve", "Chargeback"}

\* the record under tx exists and is owned by client
Owns(client, tx) == tx \in DOMAIN deposits /\ deposits[tx].client = client

\* the outcome the stated order of checks gives resolve(client, tx) and
\* chargeback(client, tx)
SettlementOutcome(client, tx) ==
    IF tx \notin DOMAIN deposits THEN "TransactionNotFound"
    ELSE IF deposits[tx].client # client THEN "TransactionClientMismatch"
    ELSE IF ~deposits[tx].disputed THEN "TransactionNotDisputed"
    ELSE Ok

\* C12 as stated: a resolve or chargeback succeeds only against a record that
\* exists, is owned by the client and is disputed; against an existing owned
\* record that is not disputed both return TransactionNotDisputed; a failed
\* chargeback changes no account.
C12_NotDisputedAnyAccount ==
    \A t \in Transaction :
        IsSettlement(t) =>
            LET r == process_transaction(Engine, t) IN
            /\ r.result = Ok => (Owns(t.client, t.tx) /\ deposits[t.tx].disputed)
            /\ (Owns(t.client, t.tx) /\ ~deposits[t.tx].disputed) =>
                   r.result = "TransactionNotDisputed"
            /\ r.result # Ok => r.engine.accounts = accounts

\* C12 amended: a resolve or chargeback succeeds only against a record that
\* exists, is owned by the client and is disputed; against an existing owned
\* record that is not disputed both return TransactionNotDisputed when the
\* client's account is not locked and AccountLocked when it is; a failed
\* chargeback changes no account.
C12_SettlementPreconditions ==
    /\ \A c \in Clients, x \in TxIds :
          /\ process_resolve(Engine, c, x).result = SettlementOutcome(c, x)
          /\ process_chargeback(Engine, c, x).result = SettlementOutcome(c, x)
    /\ \A t \in Transaction :
          IsSettlement(t) =>
              LET r == process_transaction(Engine, t) IN
              /\ r.result = Ok => (Owns(t.client, t.tx) /\ deposits[t.tx].disputed)
              /\ (Owns(t.client, t.tx) /\ ~deposits[t.tx].disputed) =>
                     r.result = IF Locked(t.client) THEN "AccountLocked"
                                ELSE "TransactionNotDisputed"
              /\ r.result # Ok => r.engine.accounts = accounts

\* C12 witness: a chargeback of the client's own undisputed record returned
\* TransactionNotDisputed and the account is not locked
C12_Witness ==
    /\ transaction.tx_type = "Chargeback"
    /\ result = "TransactionNotDisputed"
    /\ Owns(transaction.client, transaction.tx)
    /\ ~deposits[transaction.tx].disputed
    /\ ~accounts[transaction.client].locked

\* the row of the given type that references the same client and tx as t
Referencing(t, type) == [t EXCEPT !.tx_type = type]

\* C13: from every reachable state in which dispute(client, tx) succeeds, the
\* dispute followed by resolve(client, tx) succeeds and returns the engine
\* (the account's available, held and locked and the record's disputed flag
\* included) to what it was before the dispute; a successful resolve alone
\* clears the disputed flag, takes the amount from held and adds it to
\* available.
C13_DisputeReversibility ==
    \A t \in Transaction :
        LET r == process_transaction(Engine, t) IN
        /\ (t.tx_type = "Dispute" /\ r.result = Ok) =>
              process_transaction(r.engine, Referencing(t, "Resolve")) = Return(Engine, Ok)
        /\ (t.tx_type = "Resolve" /\ r.result = Ok) =>
              LET a == deposits[t.tx].amount IN
              r.engine = [Engine EXCEPT !.deposits[t.tx].disputed = FALSE,
                                        !.accounts[t.client].held = @ - a,
                                        !.accounts[t.client].available = @ + a]

\* C13 witness: a resolve succeeded and the account again has the deposit in
\* available and nothing held
C13_Witness ==
    /\ transaction.tx_type = "Resolve"
    /\ result = Ok
    /\ ~deposits[transaction.tx].disputed
    /\ accounts[transaction.client].held = 0
    /\ accounts[transaction.client].available = deposits[transaction.tx].amount

\* C14: a successful chargeback of a disputed deposit of amount a clears the
\* record's disputed flag, takes a from the owner's held, sets locked and
\* leaves available as it was, so total drops by exactly a; nothing else
\* changes.
C14_ChargebackEffect ==
    \A t \in Transaction :
        LET r == process_transaction(Engine, t) IN
        (t.tx_type = "Chargeback" /\ r.result = Ok) =>
            LET a == deposits[t.tx].amount IN
            /\ deposits[t.tx].disputed
            /\ r.engine = [Engine EXCEPT !.deposits[t.tx].disputed = FALSE,
                                         !.accounts[t.client].held = @ - a,
                                         !.accounts[t.client].locked = TRUE]
            /\ r.engine.accounts[t.client].available = accounts[t.client].available
            /\ total(r.engine.accounts[t.client]) = total(accounts[t.client]) - a

\* C14 witness: a chargeback succeeded; the account is locked, its record
\* reads undisputed and available was not re-credited
C14_Witness ==
    /\ transaction.tx_type = "Chargeback"
    /\ result = Ok
    /\ transaction.tx \in charged_back
    /\ ~deposits[transaction.tx].disputed
    /\ accounts[transaction.client].locked
    /\ accounts[transaction.client].held = 0
    /\ accounts[transaction.client].available = 0

\* the four rows of the negative-available scenario (client 1, tx 1 and 2)
ScenarioDeposit ==
    [tx_type |-> "Deposit", client |-> 1, tx |-> 1, amount |-> Some(ScenarioDepositAmount)]
ScenarioWithdrawal ==
    [tx_type |-> "Withdrawal", client |-> 1, tx |-> 2,
     amount |-> Some(ScenarioWithdrawalAmount)]
ScenarioDispute == [tx_type |-> "Dispute", client |-> 1, tx |-> 1, amount |-> None]
ScenarioChargeback == [tx_type |-> "Chargeback", client |-> 1, tx |-> 1, amount |-> None]

\* the account of client 1 holds exactly these values
Account1Is(available, held, locked) ==
    accounts[1] = [id |-> 1, available |-> available, held |-> held, locked |-> locked]

\* C15: for client 1, deposit tx1 = 100, withdrawal tx2 = 75, dispute tx1 and
\* chargeback tx1 all succeed, whatever rejected rows lie between them, and
\* give in turn (available 25, held 0), then (available -75, held 100,
\* total 25, unlocked), then (available -75, held 0, total -75, locked).
C15_NegativeAvailableScenario ==
    /\ applied = {} => process_transaction(Engine, ScenarioDeposit).result = Ok
    /\ (applied = {ScenarioDeposit} /\ ~deposits[1].disputed /\ 1 \notin charged_back) =>
          /\ Account1Is(ScenarioDepositAmount, 0, FALSE)
          /\ process_transaction(Engine, ScenarioWithdrawal).result = Ok
    /\ (/\ applied = {ScenarioDeposit, ScenarioWithdrawal}
        /\ ~deposits[1].disputed
        /\ 1 \notin charged_back) =>
          /\ Account1Is(ScenarioDepositAmount - ScenarioWithdrawalAmount, 0, FALSE)
          /\ process_transaction(Engine, ScenarioDispute).result = Ok
    /\ (applied = {ScenarioDeposit, ScenarioWithdrawal} /\ deposits[1].disputed) =>
          /\ Account1Is(-ScenarioWithdrawalAmount, ScenarioDepositAmount, FALSE)
          /\ total(accounts[1]) = ScenarioDepositAmount - ScenarioWithdrawalAmount
          /\ process_transaction(Engine, ScenarioChargeback).result = Ok
    /\ (applied = {ScenarioDeposit, ScenarioWithdrawal} /\ 1 \in charged_back) =>
          /\ Account1Is(-ScenarioWithdrawalAmount, 0, TRUE)
          /\ total(accounts[1]) = -ScenarioWithdrawalAmount

\* C15 witness: the chargeback of the scenario has just succeeded and
\* available is -75
C15_Witness ==
    /\ applied = {ScenarioDeposit, ScenarioWithdrawal}
    /\ transaction = ScenarioChargeback
    /\ result = Ok
    /\ 1 \in charged_back
    /\ accounts[1].available = -ScenarioWithdrawalAmount
    /\ accounts[1].locked

\* a dispute, resolve or chargeback row
IsReference(t) == t.tx_type \in {"Dispute", "Resolve", "Chargeback"}

\* t references a deposit record owned by a client other than t.client
ReferencesForeignDeposit(t) ==
    IsReference(t) /\ t.tx \in DOMAIN deposits /\ deposits[t.tx].client # t.client

\* C16 as stated: a dispute, resolve or chargeback of client B that references
\* a deposit of another client A returns TransactionClientMismatch and changes
\* neither account (B's account is not created) nor the record.
C16_ForeignReferenceMismatch ==
    \A t \in Transaction :
        ReferencesForeignDeposit(t) =>
            process_transaction(Engine, t) = Return(Engine, "TransactionClientMismatch")

\* C16 amended: a dispute, resolve or chargeback of client B that references
\* a deposit of another client A is rejected, with TransactionClientMismatch
\* when B's account is not locked and with AccountLocked when it is, and
\* changes neither account (B's account is not created) nor the record.
C16_CrossClientIsolation ==
    \A t \in Transaction :
        ReferencesForeignDeposit(t) =>
            LET r == process_transaction(Engine, t)
                owner == deposits[t.tx].client
            IN /\ r.result = IF Locked(t.client) THEN "AccountLocked"
                             ELSE "TransactionClientMismatch"
               /\ r.engine.accounts[owner] = accounts[owner]
               /\ DOMAIN r.engine.accounts = DOMAIN accounts
               /\ r.engine.accounts = accounts
               /\ r.engine.deposits = deposits

\* C16 witness: a client without account disputed another client's deposit,
\* got TransactionClientMismatch and still has no account
C16_Witness ==
    /\ transaction.tx_type = "Dispute"
    /\ result = "TransactionClientMismatch"
    /\ transaction.client \notin DOMAIN accounts
    /\ transaction.tx \in DOMAIN deposits
    /\ ~deposits[transaction.tx].disputed
    /\ accounts[deposits[transaction.tx].client].held = 0

RECURSIVE SumAmounts(_)
\* sum of the amounts of a set of deposit or withdrawal rows
SumAmounts(rows) ==
    IF rows = {} THEN 0
    ELSE LET t == CHOOSE t \in rows : TRUE
         IN unwrap(t.amount) + SumAmounts(rows \ {t})

RECURSIVE SumAvailable(_)
\* sum of available over the accounts of a set of clients
SumAvailable(clients) ==
    IF clients = {} THEN 0
    ELSE LET c == CHOOSE c \in clients : TRUE
         IN accounts[c].available + SumAvailable(clients \ {c})

\* the applied rows of one type
Applied(type) == {t \in applied : t.tx_type = type}

\* C17: after any sequence of deposits and withdrawals only, the sum of
\* available over all accounts equals the sum of the applied deposits' amounts
\* minus the sum of the applied withdrawals' amounts, and every account has
\* held = 0 and locked = false.
C17_Conservation ==
    /\ SumAvailable(DOMAIN accounts) =
           SumAmounts(Applied("Deposit")) - SumAmounts(Applied("Withdrawal"))
    /\ \A c \in DOMAIN accounts : accounts[c].held = 0 /\ ~accounts[c].locked

\* C17 witness: a deposit and a smaller withdrawal were applied and the last
\* row of the stream was rejected
C17_Witness ==
    /\ Applied("Deposit") # {}
    /\ Applied("Withdrawal") # {}
    /\ SumAvailable(DOMAIN accounts) > 0
    /\ result \in Errors

\* the clients with at least one applied deposit
Depositors == {t.client : t \in Applied("Deposit")}

\* C18: an account is created only by a successful deposit: a withdrawal,
\* dispute, resolve or chargeback for a client without account fails and
\* creates none, a rejected deposit for an unknown client creates none, the
\* set of accounts is the set of clients with an applied deposit, and no
\* transaction removes an account.
C18_LazyAccountCreation ==
    /\ DOMAIN accounts = Depositors
    /\ \A t \in Transaction :
           LET r == process_transaction(Engine, t)
           IN /\ DOMAIN accounts \subseteq DOMAIN r.engine.accounts
              /\ (t.client \notin DOMAIN accounts /\ t.tx_type # "Deposit") =>
                     (r.result \in Errors /\ r.engine.accounts = accounts)
              /\ (t.client \notin DOMAIN accounts /\ r.result # Ok) =>
                     r.engine.accounts = accounts
              /\ DOMAIN r.engine.accounts # DOMAIN accounts =>
                     /\ t.tx_type = "Deposit"
                     /\ r.result = Ok
                     /\ DOMAIN r.engine.accounts = DOMAIN accounts \cup {t.client}

\* C18 witness: a withdrawal for a client without account was rejected beside
\* another client's account and created none
C18_Witness ==
    /\ transaction.tx_type = "Withdrawal"
    /\ result = "AccountNotFound"
    /\ transaction.client \notin DOMAIN accounts
    /\ DOMAIN accounts # {}

\* the row `type,client,tx,` of a dispute, resolve or chargeback
Reference(type, client, tx) ==
    [tx_type |-> type, client |-> client, tx |-> tx, amount |-> None]

\* C19: while the account is unlocked, a deposit that is not under dispute
\* (in particular one that was disputed and resolved) can be disputed; after
\* dispute and resolve the engine is back in the state before the dispute,
\* and the second dispute succeeds with the effect of the first:
\* held += amount, available -= amount, disputed = true; hence the cycle
\* repeats any number of times.
C19_RedisputeAfterResolve ==
    \A c \in Clients, x \in TxIds :
        (Owns(c, x) /\ ~Locked(c) /\ ~deposits[x].disputed) =>
            LET first == process_transaction(Engine, Reference("Dispute", c, x))
                back == process_transaction(first.engine, Reference("Resolve", c, x))
                second == process_transaction(back.engine, Reference("Dispute", c, x))
                again == process_transaction(second.engine, Reference("Resolve", c, x))
                amount == deposits[x].amount
            IN /\ first.result = Ok
               /\ back = Return(Engine, Ok)
               /\ second = first
               /\ again = back
               /\ second.engine.deposits[x].disputed
               /\ second.engine.accounts[c].held = accounts[c].held + amount
               /\ second.engine.accounts[c].available = accounts[c].available - amount
               /\ second.engine.accounts[c].locked = accounts[c].locked

\* C19 witness: a deposit that was resolved before has just been disputed
\* again with success and holds its amount
C19_Witness ==
    /\ transaction.tx_type = "Dispute"
    /\ result = Ok
    /\ transaction.tx \in resolved
    /\ deposits[transaction.tx].disputed
    /\ accounts[transaction.client].held = deposits[transaction.tx].amount
    /\ ~accounts[transaction.client].locked

\* the tx ids of the applied withdrawals
WithdrawalIds == {t.tx : t \in Applied("Withdrawal")}

\* C20 as stated: a dispute, resolve or chargeback that references the tx id
\* of an applied withdrawal is rejected with TransactionNotFound and changes
\* nothing.
C20_WithdrawalReferenceNotFound ==
    \A t \in Transaction :
        (IsReference(t) /\ t.tx \in WithdrawalIds) =>
            process_transaction(Engine, t) = Return(Engine, "TransactionNotFound")

\* C20 amended: the tx id of an applied withdrawal is processed and is the id
\* of no deposit record; a dispute, resolve or chargeback that references it
\* is rejected and changes nothing, with TransactionNotFound when the issuing
\* client's account is not locked and with AccountLocked when it is; and no
\* transaction at all that carries the id is applied.
C20_OnlyDepositsDisputable ==
    /\ WithdrawalIds \subseteq processed_transactions
    /\ WithdrawalIds \cap DOMAIN deposits = {}
    /\ \A t \in Transaction :
           t.tx \in WithdrawalIds =>
               LET r == process_transaction(Engine, t)
               IN /\ r.result \in Errors
                  /\ r.engine = Engine
                  /\ IsReference(t) =>
                         r.result = IF Locked(t.client) THEN "AccountLocked"
                                    ELSE "TransactionNotFound"

\* C20 witness: the owner of an applied withdrawal disputed it and got
\* TransactionNotFound
C20_Witness ==
    /\ transaction.tx_type = "Dispute"
    /\ result = "TransactionNotFound"
    /\ \E w \in Applied("Withdrawal") :
           w.tx = transaction.tx /\ w.client = transaction.client
    /\ accounts[transaction.client].held = 0

\* the StoredDeposit that store_new_deposit inserts
NewDeposit(client, amount) == [client |-> client, amount |-> amount, disputed |-> FALSE]

\* C21 as stated: store_new_deposit returns DuplicateTransaction whenever tx is
\* in the id namespace shared by deposits and withdrawals, also when tx was
\* only marked processed and has no deposit record, and leaves the store
\* unchanged then.
C21_StoreRejectsProcessedId ==
    \A x \in TxIds, c \in Clients, a \in Decimals :
        (x \in DOMAIN deposits \/ is_processed(processed_transactions, x)) =>
            store_new_deposit(deposits, x, c, a) =
                [result |-> "DuplicateTransaction", deposits |-> deposits]

\* C21 amended: store_new_deposit returns DuplicateTransaction exactly when tx
\* has a deposit record, and leaves the store unchanged then; for a tx that
\* was only marked processed it returns Ok and inserts the record.  The
\* namespace shared with withdrawals is enforced by process_deposit, which
\* rejects a processed tx with DuplicateTransaction before it calls the store.
C21_StoreRejectsRecordedId ==
    \A x \in TxIds, c \in Clients, a \in Decimals :
        LET stored == store_new_deposit(deposits, x, c, a)
        IN /\ x \in DOMAIN deposits =>
                  stored = [result |-> "DuplicateTransaction", deposits |-> deposits]
           /\ x \notin DOMAIN deposits =>
                  /\ stored.result = Ok
                  /\ DOMAIN stored.deposits = DOMAIN deposits \cup {x}
                  /\ stored.deposits[x] = NewDeposit(c, a)
                  /\ \A y \in DOMAIN deposits : stored.deposits[y] = deposits[y]
           /\ (is_processed(processed_transactions, x) /\ a > 0) =>
                  process_deposit(Engine, c, x, a) = Return(Engine, "DuplicateTransaction")

\* C21 witness: store_new_deposit has just returned Ok for a tx that was
\* marked processed before the call
C21_Witness ==
    /\ result = Ok
    /\ \E x \in TxIds : DOMAIN deposits = {x} /\ is_processed(processed_transactions, x)

\* C22: a deposit record is created only by a successful deposit, under a tx
\* that had none; no transaction deletes a record or changes its client or
\* amount; and store_new_deposit under an existing tx, for any client and
\* amount, returns DuplicateTransaction and leaves every record as it was.
C22_OneRecordPerDeposit ==
    /\ DOMAIN deposits = {t.tx : t \in Applied("Deposit")}
    /\ \A t \in Applied("Deposit") :
           /\ deposits[t.tx].client = t.client
           /\ deposits[t.tx].amount = unwrap(t.amount)
    /\ \A t \in Transaction :
           LET r == process_transaction(Engine, t)
           IN /\ \A x \in DOMAIN deposits :
                     /\ x \in DOMAIN r.engine.deposits
                     /\ r.engine.deposits[x].client = deposits[x].client
                     /\ r.engine.deposits[x].amount = deposits[x].amount
              /\ DOMAIN r.engine.deposits # DOMAIN deposits =>
                     /\ t.tx_type = "Deposit"
                     /\ r.result = Ok
                     /\ t.tx \notin DOMAIN deposits
                     /\ DOMAIN r.engine.deposits = DOMAIN deposits \cup {t.tx}
                     /\ r.engine.deposits[t.tx] = NewDeposit(t.client, unwrap(t.amount))
              /\ (t.tx_type = "Deposit" /\ t.tx \in DOMAIN deposits) =>
                     (r.result \in Errors /\ r.engine = Engine)
    /\ \A x \in DOMAIN deposits, c \in Clients, a \in Decimals :
           store_new_deposit(deposits, x, c, a) =
               [result |-> "DuplicateTransaction", deposits |-> deposits]

\* C22 witness: a deposit of another client and another amount under the tx
\* of a disputed record was rejected as a duplicate
C22_Witness ==
    /\ transaction.tx_type = "Deposit"
    /\ result = "DuplicateTransaction"
    /\ transaction.tx \in DOMAIN deposits
    /\ deposits[transaction.tx].client # transaction.client
    /\ Some(deposits[transaction.tx].amount) # transaction.amount
    /\ deposits[transaction.tx].disputed

\* the two rows of test_example_input's expected output, in units of 0.0001
ExampleOutput ==
    << [client |-> 1, available |-> 15000, held |-> 0, total |-> 15000, locked |-> FALSE],
       [client |-> 2, available |-> 20000, held |-> 0, total |-> 20000, locked |-> FALSE] >>

\* C23: on the input deposit(c1,tx1,1.0), deposit(c2,tx2,2.0),
\* deposit(c1,tx3,2.0), withdrawal(c1,tx4,1.5), withdrawal(c2,tx5,3.0) run and
\* run_async reject the last withdrawal with InsufficientFunds, still complete
\* with Ok, and write exactly the rows client 1: available 1.5, held 0,
\* total 1.5, unlocked and client 2: available 2, held 0, total 2, unlocked.
C23_EndToEnd ==
    /\ [](records = ExampleInput =>
            /\ outcome # "Err"
            /\ received = ExampleInput => result = "InsufficientFunds"
            /\ outcome = "running" => output = <<>>
            /\ outcome = Ok =>
                   /\ received = ExampleInput
                   /\ output = ExampleOutput)
    /\ (records = ExampleInput => <>(outcome = Ok))

\* C23 witness: run_async has written the two rows of the example
C23_Witness ==
    /\ runner = "run_async"
    /\ records = ExampleInput
    /\ outcome = Ok
    /\ output = ExampleOutput
    /\ result = "InsufficientFunds"

\* the file holds a row that fails to parse
HasMalformed(file) == \E i \in DOMAIN file : file[i] = Malformed

\* the transactions of the file that precede its first malformed row
RECURSIVE ParsedPrefix(_)
ParsedPrefix(file) ==
    IF file = <<>> \/ Head(file) = Malformed THEN <<>>
    ELSE <<Head(file)>> \o ParsedPrefix(Tail(file))

\* s is an initial part of t
IsPrefix(s, t) == Len(s) <= Len(t) /\ s = SubSeq(t, 1, Len(s))

\* run or run_async is the entry point
LibraryRunner == runner \in {"run", "run_async"}

\* C24: when the input of run or run_async holds a row that fails to parse,
\* the run returns an error and emits no output row, and the engine has been
\* given at most the valid rows before the bad row.
C24_ParseErrorIsFatal ==
    /\ []((LibraryRunner /\ HasMalformed(records)) =>
            /\ outcome # Ok
            /\ output = <<>>
            /\ IsPrefix(received, ParsedPrefix(records)))
    /\ ((LibraryRunner /\ HasMalformed(records)) ~> (outcome = "Err"))

\* C24 witness: run_async returned the error with nothing written after the
\* engine applied a deposit that preceded the bad row
C24_Witness ==
    /\ runner = "run_async"
    /\ outcome = "Err"
    /\ output = <<>>
    /\ received # <<>>
    /\ DOMAIN accounts # {}

\* C25: in main.rs run a row that fails to parse is fatal to the whole run:
\* the program stops with an error and writes no account row; it does not
\* skip the bad row and go on to process later rows.
C25_MainParseErrorIsFatal ==
    (runner = "main" /\ HasMalformed(records)) =>
        /\ outcome # Ok
        /\ output = <<>>
        /\ IsPrefix(received, ParsedPrefix(records))

\* the value of Engine::new()
EmptyEngine == [accounts |-> <<>>, deposits |-> <<>>, processed_transactions |-> {}]

\* the engine after process_transaction on each transaction of stream in turn
RECURSIVE Replay(_, _)
Replay(e, stream) ==
    IF stream = <<>> THEN e
    ELSE Replay(process_transaction(e, Head(stream)).engine, Tail(stream))

\* the transactions of stream for which process_transaction returns Ok
RECURSIVE Accepted(_, _)
Accepted(e, stream) ==
    IF stream = <<>> THEN <<>>
    ELSE LET r == process_transaction(e, Head(stream))
         IN (IF r.result = Ok THEN <<Head(stream)>> ELSE <<>>)
                \o Accepted(r.engine, Tail(stream))

\* the rows of a sequence, as a set
Range(v) == {v[i] : i \in DOMAIN v}

\* C26: on an input in which every row parses, each entry point gives the
\* engine every row in order however many the engine rejects, returns Ok, and
\* writes one row per account of the ledger that results from applying
\* exactly the accepted transactions.
C26_RejectionsDoNotStopTheStream ==
    /\ [](~HasMalformed(records) =>
            /\ outcome # "Err"
            /\ IsPrefix(received, records)
            /\ outcome = Ok =>
                   LET ledger == Replay(EmptyEngine, Accepted(EmptyEngine, records))
                   IN /\ received = records
                      /\ Engine = ledger
                      /\ Range(output) = {AccountRow(ledger.accounts[c]) :
                                             c \in DOMAIN ledger.accounts}
                      /\ Len(output) = Cardinality(DOMAIN ledger.accounts))
    /\ ((runner \in Runners /\ ~HasMalformed(records)) ~> (outcome = Ok))

\* C26 witness: run returned Ok and wrote a row after the engine accepted
\* one transaction and rejected two
C26_Witness ==
    /\ runner = "run"
    /\ outcome = Ok
    /\ ~HasMalformed(records)
    /\ Len(records) = MaxRecords
    /\ Len(Accepted(EmptyEngine, records)) = 1
    /\ output # <<>>

\* C27: the output of run and run_async holds exactly one row per account of
\* the engine, each the row of that account, in strictly ascending order of
\* client; so it is determined by the input alone, whatever order the
\* HashMap yields the accounts in.
C27_SortedOutput ==
    (LibraryRunner /\ outcome = Ok) =>
        LET final == Replay(EmptyEngine, records).accounts
        IN /\ accounts = final
           /\ Len(output) = Cardinality(DOMAIN final)
           /\ \A c \in DOMAIN final :
                  Cardinality({i \in DOMAIN output : output[i].client = c}) = 1
           /\ \A i \in DOMAIN output :
                  /\ output[i].client \in DOMAIN final
                  /\ output[i] = AccountRow(final[output[i].client])
           /\ \A i, j \in DOMAIN output : i < j => output[i].client < output[j].client

\* C27 witness: run_async has written the rows of both clients
C27_Witness ==
    /\ runner = "run_async"
    /\ outcome = Ok
    /\ Len(output) = MaxClient
    /\ output[1].client < output[MaxClient].client

\* the rows of the accounts accs in ascending order of client
Ascending(accs) ==
    CHOOSE v \in [1..Cardinality(DOMAIN accs) -> {AccountRow(accs[c]) : c \in DOMAIN accs}] :
        \A i, j \in DOMAIN v : i < j => v[i].client < v[j].client

\* what a library runner returns and writes for a file: an error and nothing
\* when a row fails to parse, else Ok and the sorted rows of the engine that
\* took every row in order
Expected(file) ==
    IF HasMalformed(file) THEN [outcome |-> "Err", output |-> <<>>]
    ELSE [outcome |-> Ok, output |-> Ascending(Replay(EmptyEngine, file).accounts)]

\* C28: in run_async the transactions received and queued are, in order and
\* each once, the transactions the reader has read, the engine is the result
\* of applying the received ones in that order, and run_async ends with the
\* outcome with which run ends on the same input: the same output rows when
\* all rows parse, an error and no output otherwise.
C28_AsyncEquivalentToSequential ==
    /\ [](LibraryRunner =>
            /\ IsPrefix(received \o channel, ParsedPrefix(records))
            /\ Engine = Replay(EmptyEngine, received)
            /\ outcome # "running" =>
                   [outcome |-> outcome, output |-> output] = Expected(records))
    /\ \A r \in {"run", "run_async"} :
           (runner = r) ~> (outcome = Expected(records).outcome)

\* C28 witness: run_async returned Ok after the processor took every
\* transaction of a file of full length that the reader had sent
C28_Witness ==
    /\ runner = "run_async"
    /\ outcome = Ok
    /\ Len(records) = MaxRecords
    /\ received = records
    /\ output = Expected(records).output
    /\ output # <<>>

\* the number of transactions the reader has sent
Sent == IF reader_handle = "Err" THEN position - 1 ELSE position

\* the reader holds a parsed record and waits for room in the channel
ProducerSuspended ==
    /\ reader_handle = "running"
    /\ position < Len(records)
    /\ records[position + 1] # Malformed
    /\ Len(channel) = Capacity

\* C29: the channel of run_async never holds more than its capacity; while it
\* is full the reader sends nothing and the next step of the channel is the
\* consumer taking an item; every transaction sent is in the
\* channel or received, none dropped, and is eventually received.
C29_Backpressure ==
    /\ [](runner = "run_async" =>
            /\ Len(channel) <= Capacity
            /\ Len(received) + Len(channel) = Sent)
    /\ [][(runner = "run_async" /\ Len(channel) = Capacity) =>
            /\ Sent' = Sent
            /\ channel' = channel \/ channel' = Tail(channel)]_vars
    /\ \A n \in 1..MaxRecords :
           (runner = "run_async" /\ Sent >= n) ~> (Len(received) >= n)

\* C29 witness: the channel is full and the reader waits with the next record
C29_Witness ==
    /\ runner = "run_async"
    /\ ProducerSuspended
    /\ Len(channel) = MaxQueue

\* both tasks of run_async and run_async itself have returned
AsyncTerminated ==
    /\ Closed
    /\ processor_handle = "done"
    /\ outcome \in {Ok, "Err"}

\* C30: under fair scheduling run_async always terminates: the reader
\* returns at the end of the input or at the first malformed record, which
\* closes the channel; the processor receives every queued transaction and
\* then returns; and nothing is sent after a malformed record.
C30_AsyncTermination ==
    /\ (runner = "run_async") ~> AsyncTerminated
    /\ [](runner = "run_async" =>
            /\ IsPrefix(received \o channel, ParsedPrefix(records))
            /\ processor_handle = "done" =>
                   (Closed /\ channel = <<>> /\ Len(received) = Sent)
            /\ reader_handle = "Ok" => Sent = Len(records)
            /\ reader_handle = "Err" =>
                   (records[position] = Malformed /\ Sent = Len(ParsedPrefix(records)))
            /\ outcome # "running" => Closed)
    /\ [][(runner = "run_async" /\ Closed) =>
            /\ reader_handle' = reader_handle
            /\ Sent' = Sent
            /\ channel' = channel \/ channel' = Tail(channel)]_vars

\* C30 witness: the reader stopped at a malformed record with rows left
\* unread, the processor received what had been sent and returned, and
\* run_async returned the error
C30_Witness ==
    /\ runner = "run_async"
    /\ reader_handle = "Err"
    /\ processor_handle = "done"
    /\ outcome = "Err"
    /\ received # <<>>
    /\ position < Len(records)

RECURSIVE SumRecords(_)
\* sum of the amounts of the deposit records under a set of tx ids
SumRecords(ids) ==
    IF ids = {} THEN 0
    ELSE LET x == CHOOSE x \in ids : TRUE
         IN deposits[x].amount + SumRecords(ids \ {x})

\* the tx ids of client's deposit records that are under dispute
Disputed(client) == {x \in DOMAIN deposits : deposits[x].client = client /\ deposits[x].disputed}

\* C33: in every reachable state the held of every account equals the sum of
\* the amounts of the client's deposit records whose disputed flag is true;
\* so held is never negative and is 0 when the client has no open dispute.
C33_HeldInvariant ==
    \A c \in DOMAIN accounts :
        /\ accounts[c].held = SumRecords(Disputed(c))
        /\ accounts[c].held >= 0
        /\ Disputed(c) = {} => accounts[c].held = 0

\* C33 witness: one client has two deposits of different amounts under
\* dispute and holds their sum
C33_Witness ==
    \E c \in DOMAIN accounts :
        /\ Cardinality(Disputed(c)) = 2
        /\ \E x, y \in Disputed(c) : deposits[x].amount < deposits[y].amount
        /\ accounts[c].held = SumRecords(Disputed(c))
        /\ accounts[c].held > MaxAmount

\* the tx ids of client's deposits for which a chargeback has succeeded
ChargedBack(client) == {x \in charged_back : deposits[x].client = client}

\* the applied rows of one type and one client
AppliedBy(type, client) == {t \in Applied(type) : t.client = client}

\* C34: in every reachable state and for every account, available + held
\* equals the sum of the client's applied deposits minus the sum of the
\* client's applied withdrawals minus the sum of the amounts of the client's
\* charged-back deposits.
C34_BalanceEquation ==
    \A c \in DOMAIN accounts :
        total(accounts[c]) =
            SumAmounts(AppliedBy("Deposit", c)) - SumAmounts(AppliedBy("Withdrawal", c))
                - SumRecords(ChargedBack(c))

\* C34 witness: an account after a deposit, a withdrawal and the chargeback
\* of the deposit, with a negative total
C34_Witness ==
    \E c \in DOMAIN accounts :
        /\ AppliedBy("Withdrawal", c) # {}
        /\ ChargedBack(c) # {}
        /\ total(accounts[c]) < 0

\* the withdrawal rows of client that carry a positive amount
PositiveWithdrawals(client) ==
    {t \in Transaction : t.tx_type = "Withdrawal" /\ t.client = client /\ IsPositivePayment(t)}

\* for every client the applied withdrawals do not exceed the applied
\* deposits, available is negative only beside a disputed or charged-back
\* deposit of the client, and no successful withdrawal leaves available negative
WithdrawalsAreCovered ==
    \A c \in DOMAIN accounts :
        /\ SumAmounts(AppliedBy("Withdrawal", c)) <= SumAmounts(AppliedBy("Deposit", c))
        /\ accounts[c].available < 0 => (Disputed(c) # {} \/ ChargedBack(c) # {})
        /\ \A t \in PositiveWithdrawals(c) :
               LET r == process_transaction(Engine, t)
               IN r.result = Ok => r.engine.accounts[c].available >= 0

\* C35 as stated: withdrawals are covered, and while available is negative or
\* zero every withdrawal of a positive amount is rejected with InsufficientFunds.
C35_NonPositiveAvailableInsufficientFunds ==
    /\ WithdrawalsAreCovered
    /\ \A c \in DOMAIN accounts :
           accounts[c].available <= 0 =>
               \A t \in PositiveWithdrawals(c) :
                   process_transaction(Engine, t) = Return(Engine, "InsufficientFunds")

\* C35 amended: withdrawals are covered, and while available is negative or
\* zero every withdrawal of a positive amount is rejected and changes nothing:
\* with AccountLocked if the account is locked, else with DuplicateTransaction
\* if its tx is already processed, else with InsufficientFunds.
C35_NoOverdraft ==
    /\ WithdrawalsAreCovered
    /\ \A c \in DOMAIN accounts :
           accounts[c].available <= 0 =>
               \A t \in PositiveWithdrawals(c) :
                   process_transaction(Engine, t) =
                       Return(Engine,
                              IF Locked(c) THEN "AccountLocked"
                              ELSE IF is_processed(processed_transactions, t.tx)
                                   THEN "DuplicateTransaction"
                                   ELSE "InsufficientFunds")

\* C35 witness: a withdrawal was rejected with InsufficientFunds on an
\* unlocked account whose funds are all held
C35_Witness ==
    /\ transaction.tx_type = "Withdrawal"
    /\ result = "InsufficientFunds"
    /\ accounts[transaction.client].available <= 0
    /\ accounts[transaction.client].held > 0
    /\ ~accounts[transaction.client].locked

\* C36: an account is locked exactly when a chargeback has succeeded for its
\* client; no transaction unlocks a locked account; and a client never has a
\* second successful chargeback: at most one deposit of a client is charged
\* back and every further chargeback row of a locked client is rejected.
C36_LockedIffChargedBack ==
    /\ \A c \in Clients : Locked(c) <=> ChargedBack(c) # {}
    /\ \A c \in DOMAIN accounts :
           /\ Cardinality(ChargedBack(c)) <= 1
           /\ accounts[c].locked =>
                  \A t \in Transaction :
                      LET r == process_transaction(Engine, t)
                      IN /\ r.engine.accounts[c].locked
                         /\ (t.tx_type = "Chargeback" /\ t.client = c) => r.result # Ok

\* C36 witness: a chargeback row was rejected for a client that is locked by
\* an earlier chargeback and still has another deposit under dispute
C36_Witness ==
    /\ transaction.tx_type = "Chargeback"
    /\ result = "AccountLocked"
    /\ ChargedBack(transaction.client) # {}
    /\ transaction.tx \in Disputed(transaction.client)

\* the deposit records owned by client
Owned(client) == {x \in DOMAIN deposits : deposits[x].client = client}

\* C37: a charged-back deposit reads not disputed, its owner is locked and
\* every later dispute, resolve or chargeback that names it is rejected; no
\* transaction changes any deposit record of a locked client, so a deposit
\* that was disputed when the chargeback happened stays disputed and the
\* locked account keeps its held amount.
C37_FrozenAfterChargeback ==
    /\ \A x \in charged_back :
           /\ ~deposits[x].disputed
           /\ Locked(deposits[x].client)
           /\ \A type \in {"Dispute", "Resolve", "Chargeback"}, c \in Clients :
                  process_transaction(Engine, Reference(type, c, x)).result # Ok
    /\ \A c \in DOMAIN accounts :
           accounts[c].locked =>
               \A t \in Transaction :
                   LET r == process_transaction(Engine, t)
                   IN /\ \A x \in Owned(c) : r.engine.deposits[x] = deposits[x]
                      /\ r.engine.accounts[c].held = accounts[c].held

\* C37 witness: a resolve of a still-disputed deposit was rejected because
\* its owner is locked by the chargeback of another deposit, held is positive
C37_Witness ==
    /\ transaction.tx_type = "Resolve"
    /\ result = "AccountLocked"
    /\ transaction.tx \in Disputed(transaction.client)
    /\ ChargedBack(transaction.client) # {}
    /\ transaction.tx \notin charged_back
    /\ accounts[transaction.client].held > 0

\* a deposit or withdrawal of a positive amount that the engine in state e
\* has every reason to accept but for its tx id
ValidPayment(e, t) ==
    /\ IsPositivePayment(t)
    /\ check_account_lock(e.accounts, t.client) = Ok
    /\ t.tx_type = "Withdrawal" =>
           /\ t.client \in DOMAIN e.accounts
           /\ e.accounts[t.client].available >= unwrap(t.amount)

\* C38: the processed set holds exactly the tx ids of the deposits and
\* withdrawals that succeeded; a deposit or withdrawal rejected for any reason
\* leaves the engine as it was, and unless an earlier success had already used
\* its tx id every valid deposit or withdrawal under that id is accepted next.
C38_RejectedPaymentKeepsId ==
    /\ processed_transactions = {t.tx : t \in applied}
    /\ \A t \in {u \in Transaction : IsPayment(u)} :
           LET r == process_transaction(Engine, t)
           IN r.result # Ok =>
                  /\ r.engine = Engine
                  /\ ~is_processed(processed_transactions, t.tx) =>
                         \A t2 \in {u \in Transaction : u.tx = t.tx /\ ValidPayment(r.engine, u)} :
                             process_transaction(r.engine, t2).result = Ok

\* C38 witness: a withdrawal was just rejected with InsufficientFunds, its tx
\* id is not in the processed set and a deposit under that id is accepted
C38_Witness ==
    /\ transaction.tx_type = "Withdrawal"
    /\ result = "InsufficientFunds"
    /\ transaction.tx \notin processed_transactions
    /\ processed_transactions # {}
    /\ process_transaction(Engine, [transaction EXCEPT !.tx_type = "Deposit"]).result = Ok

\* the deposit rows of a positive amount
PositiveDeposits == {t \in Transaction : t.tx_type = "Deposit" /\ IsPositivePayment(t)}

\* C39: every tx id with a deposit record is in the processed set, so for an
\* id that passes is_processed the duplicate check of store_new_deposit
\* passes too; a successful deposit leaves its record, its processed mark and
\* the credit on the account together.
C39_RecordedImpliesProcessed ==
    /\ DOMAIN deposits \subseteq processed_transactions
    /\ \A t \in PositiveDeposits :
           ~is_processed(processed_transactions, t.tx) =>
               store_new_deposit(deposits, t.tx, t.client, unwrap(t.amount)).result = Ok
    /\ \A t \in PositiveDeposits :
           LET r == process_transaction(Engine, t)
               before == IF t.client \in DOMAIN accounts THEN accounts[t.client].available ELSE 0
           IN r.result = Ok =>
                  /\ t.tx \in DOMAIN r.engine.deposits
                  /\ r.engine.deposits[t.tx] = NewDeposit(t.client, unwrap(t.amount))
                  /\ is_processed(r.engine.processed_transactions, t.tx)
                  /\ r.engine.accounts[t.client].available = before + unwrap(t.amount)

\* C39 witness: a second deposit of a client just succeeded: it has its
\* record and its processed mark, and the account holds both credits
C39_Witness ==
    /\ transaction.tx_type = "Deposit"
    /\ result = Ok
    /\ transaction.tx \in DOMAIN deposits \cap processed_transactions
    /\ Cardinality(Owned(transaction.client)) = 2
    /\ accounts[transaction.client].available = SumRecords(Owned(transaction.client))

\* the engine's account of client, or none
AccountOf(e, client) == IF client \in DOMAIN e.accounts THEN Some(e.accounts[client]) ELSE None

\* the deposit records of e that client does not own
RecordsOfOthers(e, client) ==
    [x \in {y \in DOMAIN e.deposits : e.deposits[y].client # client} |-> e.deposits[x]]

\* two rows of different clients that do not share a deposit/withdrawal id
Independent(t1, t2) ==
    /\ t1.client # t2.client
    /\ (IsPayment(t1) /\ IsPayment(t2)) => t1.tx # t2.tx

\* C40: a transaction of client c leaves every other client's account and
\* every deposit record not owned by c as they were, and two transactions of
\* different clients with distinct deposit/withdrawal ids reach the same
\* engine state in either order (so any two interleavings that keep each
\* client's own order, being connected by such swaps, end in the same state).
C40_ClientsIndependent ==
    /\ \A t \in Transaction :
           LET r == process_transaction(Engine, t)
           IN /\ \A c \in Clients \ {t.client} : AccountOf(r.engine, c) = AccountOf(Engine, c)
              /\ RecordsOfOthers(r.engine, t.client) = RecordsOfOthers(Engine, t.client)
    /\ \A t1, t2 \in Transaction :
           Independent(t1, t2) => Replay(Engine, <<t1, t2>>) = Replay(Engine, <<t2, t1>>)

\* C40 witness: transactions of two clients have been interleaved: one client
\* is locked by a chargeback, another holds the amount of a disputed deposit
C40_Witness ==
    \E c1, c2 \in DOMAIN accounts :
        /\ c1 # c2
        /\ accounts[c1].locked
        /\ Owned(c1) # {}
        /\ ~accounts[c2].locked
        /\ accounts[c2].held > 0
        /\ Disputed(c2) # {}

\* the absolute value of a Decimal
abs(dec) == IF dec >= 0 THEN dec ELSE 0 - dec

\* value is what is left of written when the digits behind the fourth are cut off
Truncated(written, value) ==
    /\ value % Fraction = 0
    /\ abs(value) <= abs(written)
    /\ abs(written) - abs(value) < Fraction
    /\ written >= 0 <=> value >= 0

\* C31: every amount of the file reaches the engine truncated toward zero to
\* four fractional digits: 0.12345 and 0.123499999 both arrive as 0.1234, no
\* amount arrives larger in magnitude than written, and an amount with at most
\* four fractional digits arrives unchanged.
C31_IngressTruncation ==
    /\ deserialize_decimal_4dp(Some(123450000)) = Some(123400000)
    /\ deserialize_decimal_4dp(Some(123499999)) = Some(123400000)
    /\ Len(received) = position
    /\ \A i \in 1..Len(received) :
           /\ received[i].amount = None <=> records[i].amount = None
           /\ received[i].amount # None =>
                  LET written == unwrap(records[i].amount)
                      value == unwrap(received[i].amount)
                  IN /\ Truncated(written, value)
                     /\ written % Fraction = 0 => value = written
    /\ \A t \in applied : unwrap(t.amount) % Fraction = 0

\* C31 witness: the deposit of 0.123499999 was read and credited as 0.1234
C31_Witness ==
    /\ position > 0
    /\ records[position].tx_type = "Deposit"
    /\ records[position].amount = Some(123499999)
    /\ transaction.amount = Some(123400000)
    /\ result = Ok
    /\ accounts[1].available = 123400000

\* C32: every stored available and held is a multiple of 0.0001, so the
\* truncation at output changes no value: every row written is the account's
\* row as the engine holds it, and its total is its available plus its held.
C32_OutputExact ==
    /\ \A c \in DOMAIN accounts :
           /\ accounts[c].available % Fraction = 0
           /\ accounts[c].held % Fraction = 0
           /\ Serialize(AccountRow(accounts[c])) = AccountRow(accounts[c])
    /\ \A i \in DOMAIN output :
           /\ output[i].total = output[i].available + output[i].held
           /\ output[i] = AccountRow(accounts[output[i].client])

\* C32 witness: a row was written for an account that holds one deposit of
\* 0.12345 as available and another, disputed, as held
C32_Witness ==
    /\ outcome = "Ok"
    /\ Len(output) = 1
    /\ output[1].available = 123400000
    /\ output[1].held = 123400000
    /\ output[1].total = 246800000
    /\ \A i \in {1, 2} : records[i].amount = Some(123450000)
====
